---- MODULE Spec2Model ----
(***************************************************************************)
(* Model of the appointment chatbot: the conversational form state machine *)
(* (conversational_form.py), its validators and date extraction            *)
(* (validators.py), the intent router and agent wrapper (tool_agents.py),  *)
(* the QA chatbot fallback chain (chatbot.py) and the Streamlit handlers   *)
(* (app.py).                                                               *)
(*                                                                         *)
(* A Python str is a sequence of one-character strings, so that substring  *)
(* tests, strip(), lower(), title() and the regular expressions are        *)
(* computed character by character as the code computes them.              *)
(***************************************************************************)
EXTENDS Integers, Sequences, FiniteSets, TLC

(***************************************************************************)
(* Characters and the str methods the code uses                            *)
(***************************************************************************)
LowerLetters == <<"a","b","c","d","e","f","g","h","i","j","k","l","m",
                  "n","o","p","q","r","s","t","u","v","w","x","y","z">>

UpperLetters == <<"A","B","C","D","E","F","G","H","I","J","K","L","M",
                  "N","O","P","Q","R","S","T","U","V","W","X","Y","Z">>

DigitChars == <<"0","1","2","3","4","5","6","7","8","9">>

Range(f) == {f[i] : i \in DOMAIN f}

Lowers == Range(LowerLetters)

Uppers == Range(UpperLetters)

Digits == Range(DigitChars)

Letters == Lowers \cup Uppers

\* \s of the re module and the characters str.strip() removes
Whitespace == {" ", "\t", "\n"}

\* \w of the re module (ASCII part)
WordChars == Letters \cup Digits \cup {"_"}

IndexIn(seq, c) == CHOOSE i \in DOMAIN seq : seq[i] = c

LowerChar(c) == IF c \in Uppers THEN LowerLetters[IndexIn(UpperLetters, c)] ELSE c

UpperChar(c) == IF c \in Lowers THEN UpperLetters[IndexIn(LowerLetters, c)] ELSE c

\* str.lower()
lower(s) == [i \in 1..Len(s) |-> LowerChar(s[i])]

\* str.strip(): drop leading and trailing whitespace
strip(s) ==
    LET nonws == {i \in 1..Len(s) : s[i] \notin Whitespace}
    IN  IF nonws = {} THEN << >>
        ELSE LET start == CHOOSE i \in nonws : \A j \in nonws : i <= j
                 stop  == CHOOSE i \in nonws : \A j \in nonws : j <= i
             IN  SubSeq(s, start, stop)

\* str.title(): a letter that follows a non-letter is upper-cased, every
\* other letter is lower-cased
title(s) ==
    [i \in 1..Len(s) |->
        IF i = 1 \/ s[i-1] \notin Letters THEN UpperChar(s[i]) ELSE LowerChar(s[i])]

\* f as a table of its values, each computed once
Table(f) == f @@ << >>

\* s[p+1 .. p+Len(w)] = w : the literal w occurs in s right after offset p
OccursAt(s, w, p) ==
    /\ p + Len(w) <= Len(s)
    /\ \A k \in 1..Len(w) : s[p + k] = w[k]

\* the Python test `w in s`
Contains(s, w) == \E p \in 0..Len(s) : OccursAt(s, w, p)

\* str.isdigit() (ASCII digits; an empty str is not a digit string)
isdigit(s) == Len(s) > 0 /\ \A i \in 1..Len(s) : s[i] \in Digits

\* s with the characters of the set cs taken out: re.sub('[cs]+', '', s)
RECURSIVE Remove(_, _)
Remove(s, cs) ==
    IF s = << >> THEN << >>
    ELSE IF Head(s) \in cs THEN Remove(Tail(s), cs)
         ELSE <<Head(s)>> \o Remove(Tail(s), cs)

(***************************************************************************)
(* Inputs                                                                  *)
(***************************************************************************)
\* 'al'
InAl == <<"a","l">>

\* ' bo LEE '
InBoLee == <<" ","b","o"," ","L","E","E"," ">>

\* 'a'
InShortName == <<"a">>

\* 'al3'
InBadName == <<"a","l","3">>

\* ' Al@X.io '
InEmail == <<" ","A","l","@","X",".","i","o"," ">>

\* 'not-an-email'
InBadEmail == <<"n","o","t","-","a","n","-","e","m","a","i","l">>

\* '123-456-7890'
InPhoneDashes == <<"1","2","3","-","4","5","6","-","7","8","9","0">>

\* '(123) 456-7890'
InPhoneParens == <<"(","1","2","3",")"," ","4","5","6","-","7","8","9","0">>

\* '1234567890'
InPhoneDigits == <<"1","2","3","4","5","6","7","8","9","0">>

\* '12345'
InShortPhone == <<"1","2","3","4","5">>

\* 'Tomorrow, please.'
InTomorrow ==
    <<"T","o","m","o","r","r","o","w",","," ","p","l","e","a","s","e",".">>

\* 'next monday?'
InNextMonday == <<"n","e","x","t"," ","m","o","n","d","a","y","?">>

\* 'soon...'
InSoon == <<"s","o","o","n",".",".",".">>

\* 'Yes!'
InYes == <<"Y","e","s","!">>

\* 'no'
InNo == <<"n","o">>

\* 'incorrect'
InIncorrect == <<"i","n","c","o","r","r","e","c","t">>

\* 'what?'
InUnclear == <<"w","h","a","t","?">>

\* '  '
InBlank == <<" "," ">>

\* 'hello'
InHello == <<"h","e","l","l","o">>

\* 'please call me back'
InCallBack ==
    <<"p","l","e","a","s","e"," ","c","a","l","l"," ","m","e"," ","b","a",
      "c","k">>

\* 'what is this document about'
InDocQuestion ==
    <<"w","h","a","t"," ","i","s"," ","t","h","i","s"," ","d","o","c","u",
      "m","e","n","t"," ","a","b","o","u","t">>

\* 'a Meeting?'
InMeeting == <<"a"," ","M","e","e","t","i","n","g","?">>

\* 'book a call!'
InBookACall == <<"b","o","o","k"," ","a"," ","c","a","l","l","!">>

\* 'boom'
ErrBoom == <<"b","o","o","m">>

\* 'today'
InToday == <<"t","o","d","a","y">>

\* 'Yesterday'
InYesterday == <<"Y","e","s","t","e","r","d","a","y">>

\* 'next week'
InNextWeek == <<"n","e","x","t"," ","w","e","e","k">>

\* 'next monday'
InNextMondayPlain == <<"n","e","x","t"," ","m","o","n","d","a","y">>

\* 'monday'
InMonday == <<"m","o","n","d","a","y">>

\* 'on friday'
InFriday == <<"o","n"," ","f","r","i","d","a","y">>

\* 'next friday'
InNextFriday == <<"n","e","x","t"," ","f","r","i","d","a","y">>

\* 'sunday'
InSunday == <<"s","u","n","d","a","y">>

\* 'next month'
InNextMonth == <<"n","e","x","t"," ","m","o","n","t","h">>

\* '2024-03-05'
InIsoDate == <<"2","0","2","4","-","0","3","-","0","5">>

\* 'today or tomorrow'
InTodayOrTomorrow ==
    <<"t","o","d","a","y"," ","o","r"," ","t","o","m","o","r","r","o","w">>

\* "01/01/0999"
InOldDate == <<"0","1","/","0","1","/","0","9","9","9">>

\* 'monday or tomorrow'
InMondayOrTomorrow ==
    <<"m","o","n","d","a","y"," ","o","r"," ","t","o","m","o","r","r","o","w">>

\* 'friday 2024-03-05'
InFridayIsoDate ==
    <<"f","r","i","d","a","y"," ","2","0","2","4","-","0","3","-","0","5">>

\* '2024-13-45 01/02/2024'
InBadIsoThenUsDate ==
    <<"2","0","2","4","-","1","3","-","4","5"," ","0","1","/","0","2","/",
      "2","0","2","4">>

\* what is typed into the form when it is driven directly
FormInputs ==
    {InAl, InBoLee, InShortName, InBadName, InEmail, InBadEmail, InPhoneDashes,
     InPhoneParens, InPhoneDigits, InShortPhone, InTomorrow, InNextMonday, InSoon,
     InYes, InNo, InIncorrect, InUnclear}

\* what is typed into the chat box
UserInputs ==
    {InBlank, InHello, InCallBack, InDocQuestion, InMeeting, InBookACall,
     InAl, InEmail, InPhoneDigits, InTomorrow, InYes, InNo}

\* the texts extract_date is given on its own
DateTexts ==
    {InToday, InTomorrow, InYesterday, InNextWeek, InNextMondayPlain, InMonday,
     InFriday, InNextFriday, InSunday, InNextMonth, InIsoDate, InTodayOrTomorrow,
     InOldDate, InMondayOrTomorrow, InFridayIsoDate, InBadIsoThenUsDate, InSoon}

\* every text that is given to the program
Texts == FormInputs \cup UserInputs \cup DateTexts

Date(y, m, d) == [y |-> y, m |-> m, d |-> d]

\* the day the form and the chat are run on (a Monday)
SessionDay == Date(2024, 1, 15)

\* the days extract_date is evaluated on: a whole week, the ends of months
\* and of years, and the end of February in a leap year and in a common year
RefDates ==
    {Date(2024, 1, 15), Date(2024, 1, 16), Date(2024, 1, 17), Date(2024, 1, 18),
     Date(2024, 1, 19), Date(2024, 1, 20), Date(2024, 1, 21), Date(2024, 1, 31),
     Date(2024, 2, 28), Date(2024, 2, 29), Date(2023, 2, 28), Date(2024, 3, 1),
     Date(2024, 12, 25), Date(2024, 12, 30), Date(2024, 12, 31), Date(2024, 1, 1)}

Days == RefDates \cup {SessionDay}

(***************************************************************************)
(* validators.py: FormValidator                                            *)
(***************************************************************************)
\* 'Name must be at least 2 characters long'
MsgNameTooShort ==
    <<"N","a","m","e"," ","m","u","s","t"," ","b","e"," ","a","t"," ","l",
      "e","a","s","t"," ","2"," ","c","h","a","r","a","c","t","e","r","s",
      " ","l","o","n","g">>

\* 'Name should only contain letters and spaces'
MsgNameBadChars ==
    <<"N","a","m","e"," ","s","h","o","u","l","d"," ","o","n","l","y"," ",
      "c","o","n","t","a","i","n"," ","l","e","t","t","e","r","s"," ","a",
      "n","d"," ","s","p","a","c","e","s">>

\* 'Valid name'
MsgValidName == <<"V","a","l","i","d"," ","n","a","m","e">>

\* 'Valid phone number: '
MsgValidPhonePrefix ==
    <<"V","a","l","i","d"," ","p","h","o","n","e"," ","n","u","m","b","e",
      "r",":"," ">>

\* 'Invalid phone number'
MsgInvalidPhone ==
    <<"I","n","v","a","l","i","d"," ","p","h","o","n","e"," ","n","u","m",
      "b","e","r">>

\* 'Valid email'
MsgValidEmail == <<"V","a","l","i","d"," ","e","m","a","i","l">>

\* 'Invalid email: does not match email format'
MsgInvalidEmail ==
    <<"I","n","v","a","l","i","d"," ","e","m","a","i","l",":"," ","d","o",
      "e","s"," ","n","o","t"," ","m","a","t","c","h"," ","e","m","a","i",
      "l"," ","f","o","r","m","a","t">>

\* ': '
ColonSpace == <<":"," ">>

\* validate_name: (is_valid, message)
validate_name(name) ==
    LET stripped == strip(name)
    IN  IF name = << >> \/ Len(stripped) < 2
        THEN [is_valid |-> FALSE, message |-> MsgNameTooShort]
        ELSE IF ~ \A i \in 1..Len(stripped) : stripped[i] \in Letters \cup Whitespace
        THEN [is_valid |-> FALSE, message |-> MsgNameBadChars]
        ELSE [is_valid |-> TRUE, message |-> MsgValidName]

\* the characters [\s\-\(\)\.] that validate_phone removes
PhoneSeparators == Whitespace \cup {"-", "(", ")", "."}

\* validate_phone: the cleaned digits are embedded in the success message
validate_phone(phone) ==
    LET cleaned_phone == Remove(strip(phone), PhoneSeparators)
    IN  IF isdigit(cleaned_phone) /\ Len(cleaned_phone) >= 10
        THEN [is_valid |-> TRUE, message |-> MsgValidPhonePrefix \o cleaned_phone]
        ELSE [is_valid |-> FALSE, message |-> MsgInvalidPhone]

\* [a-zA-Z0-9._%+-]
EmailLocalChars == Letters \cup Digits \cup {".", "_", "%", "+", "-"}

\* [a-zA-Z0-9.-]
EmailDomainChars == Letters \cup Digits \cup {".", "-"}

\* re.match(r'^[a-zA-Z0-9._%+-]+@[a-zA-Z0-9.-]+\.[a-zA-Z]{2,}$', email):
\* some position at of the "@" and some position dot of the last "." split
\* the string into a local part, a domain and a top-level domain
EmailPatternMatches(email) ==
    \E at \in 2..Len(email) : \E dot \in (at + 2)..(Len(email) - 2) :
        /\ email[at] = "@"
        /\ email[dot] = "."
        /\ \A i \in 1..(at - 1) : email[i] \in EmailLocalChars
        /\ \A i \in (at + 1)..(dot - 1) : email[i] \in EmailDomainChars
        /\ \A i \in (dot + 1)..Len(email) : email[i] \in Letters

\* validate_email: (is_valid, message)
validate_email(email) ==
    IF EmailPatternMatches(strip(email))
    THEN [is_valid |-> TRUE, message |-> MsgValidEmail]
    ELSE [is_valid |-> FALSE, message |-> MsgInvalidEmail]

\* str.split(sep)[-1]: what follows the last occurrence of sep
SplitLast(s, sep) ==
    LET occ == {p \in 0..Len(s) : OccursAt(s, sep, p)}
    IN  IF occ = {} THEN s
        ELSE LET p == CHOOSE q \in occ : \A r \in occ : r <= q
             IN  SubSeq(s, p + Len(sep) + 1, Len(s))

\* The verdicts and the normalised values for every text of Texts, computed
\* once: the operators above are pure functions of the text
validate_name_of == Table([u \in Texts |-> validate_name(u)])

validate_email_of == Table([u \in Texts |-> validate_email(u)])

validate_phone_of == Table([u \in Texts |-> validate_phone(u)])

\* user_input.strip().title()
titled_of == Table([u \in Texts |-> title(strip(u))])

\* user_input.strip().lower()
lowered_of == Table([u \in Texts |-> lower(strip(u))])

(***************************************************************************)
(* Calendar dates: datetime.date, timedelta, relativedelta, strftime       *)
(***************************************************************************)
\* a date is [y, m, d]; Python's None is the empty str, which `if x:` also
\* takes as false
None == << >>

IsLeap(y) == y % 4 = 0 /\ (y % 100 # 0 \/ y % 400 = 0)

DaysInMonth(y, m) ==
    IF m = 2 THEN (IF IsLeap(y) THEN 29 ELSE 28)
    ELSE IF m \in {4, 6, 9, 11} THEN 30 ELSE 31

IsValidDate(y, m, d) ==
    y \in 1..9999 /\ m \in 1..12 /\ d \in 1..DaysInMonth(y, m)

\* days before January 1st of year y
DaysBeforeYear(y) ==
    (y - 1) * 365 + ((y - 1) \div 4) - ((y - 1) \div 100) + ((y - 1) \div 400)

RECURSIVE DaysBeforeMonth(_, _)
DaysBeforeMonth(y, m) ==
    IF m = 1 THEN 0 ELSE DaysBeforeMonth(y, m - 1) + DaysInMonth(y, m - 1)

\* date.toordinal(): January 1st of year 1 is day 1
ToOrdinal(date) == DaysBeforeYear(date.y) + DaysBeforeMonth(date.y, date.m) + date.d

\* date.fromordinal(n)
FromOrdinal(n) ==
    LET y == CHOOSE yy \in (n \div 366)..((n \div 365) + 1) :
                 DaysBeforeYear(yy) < n /\ n <= DaysBeforeYear(yy + 1)
        r == n - DaysBeforeYear(y)
        m == CHOOSE mm \in 1..12 :
                 DaysBeforeMonth(y, mm) < r /\ r <= DaysBeforeMonth(y, mm) + DaysInMonth(y, mm)
    IN  [y |-> y, m |-> m, d |-> r - DaysBeforeMonth(y, m)]

\* date + timedelta(days=n)
AddDays(date, n) == FromOrdinal(ToOrdinal(date) + n)

\* date + relativedelta(months=1): the day is clamped to the month's length
AddOneMonth(date) ==
    LET y == IF date.m = 12 THEN date.y + 1 ELSE date.y
        m == IF date.m = 12 THEN 1 ELSE date.m + 1
        dim == DaysInMonth(y, m)
    IN  [y |-> y, m |-> m, d |-> IF date.d > dim THEN dim ELSE date.d]

\* date.weekday(): Monday is 0
weekday(date) == (ToOrdinal(date) + 6) % 7

Digit(n) == DigitChars[n + 1]

DigitValue(c) == IndexIn(DigitChars, c) - 1

\* strftime("%Y-%m-%d") with the year written in four digits
strftime(date) ==
    << Digit(date.y \div 1000), Digit((date.y \div 100) % 10),
       Digit((date.y \div 10) % 10), Digit(date.y % 10), "-",
       Digit(date.m \div 10), Digit(date.m % 10), "-",
       Digit(date.d \div 10), Digit(date.d % 10) >>

RECURSIVE Number(_)
\* int() of a digit string
Number(s) ==
    IF s = << >> THEN 0
    ELSE 10 * Number(SubSeq(s, 1, Len(s) - 1)) + DigitValue(s[Len(s)])

(***************************************************************************)
(* validators.py: DateExtractor                                            *)
(***************************************************************************)
\* 'today'
WordToday == <<"t","o","d","a","y">>

\* 'tomorrow'
WordTomorrow == <<"t","o","m","o","r","r","o","w">>

\* 'yesterday'
WordYesterday == <<"y","e","s","t","e","r","d","a","y">>

\* 'next week'
WordNextWeek == <<"n","e","x","t"," ","w","e","e","k">>

\* 'next month'
WordNextMonth == <<"n","e","x","t"," ","m","o","n","t","h">>

\* 'next'
WordNext == <<"n","e","x","t">>

\* the weekdays dict, in its insertion order, weekdays[i] having day_num i - 1
weekdays ==
    << <<"m","o","n","d","a","y">>,
       <<"t","u","e","s","d","a","y">>,
       <<"w","e","d","n","e","s","d","a","y">>,
       <<"t","h","u","r","s","d","a","y">>,
       <<"f","r","i","d","a","y">>,
       <<"s","a","t","u","r","d","a","y">>,
       <<"s","u","n","d","a","y">> >>

\* words dateutil's parser reads as a month or a weekday
DateutilWords ==
    { <<"j","a","n">>,
      <<"j","a","n","u","a","r","y">>,
      <<"f","e","b">>,
      <<"f","e","b","r","u","a","r","y">>,
      <<"m","a","r">>,
      <<"m","a","r","c","h">>,
      <<"a","p","r">>,
      <<"a","p","r","i","l">>,
      <<"m","a","y">>,
      <<"j","u","n">>,
      <<"j","u","n","e">>,
      <<"j","u","l">>,
      <<"j","u","l","y">>,
      <<"a","u","g">>,
      <<"a","u","g","u","s","t">>,
      <<"s","e","p">>,
      <<"s","e","p","t">>,
      <<"s","e","p","t","e","m","b","e","r">>,
      <<"o","c","t">>,
      <<"o","c","t","o","b","e","r">>,
      <<"n","o","v">>,
      <<"n","o","v","e","m","b","e","r">>,
      <<"d","e","c">>,
      <<"d","e","c","e","m","b","e","r">>,
      <<"m","o","n">>,
      <<"t","u","e">>,
      <<"t","u","e","s">>,
      <<"w","e","d">>,
      <<"t","h","u">>,
      <<"t","h","u","r">>,
      <<"t","h","u","r","s">>,
      <<"f","r","i">>,
      <<"s","a","t">>,
      <<"s","u","n">>,
      <<"m","o","n","d","a","y">>,
      <<"t","u","e","s","d","a","y">>,
      <<"w","e","d","n","e","s","d","a","y">>,
      <<"t","h","u","r","s","d","a","y">>,
      <<"f","r","i","d","a","y">>,
      <<"s","a","t","u","r","d","a","y">>,
      <<"s","u","n","d","a","y">> }

AllDigits(s, from, len) ==
    /\ from + len <= Len(s)
    /\ \A k \in 1..len : s[from + k] \in Digits

\* self.date_patterns: the digits of the three groups and the separator
date_patterns ==
    << [lo1 |-> 4, hi1 |-> 4, lo2 |-> 2, hi2 |-> 2, n3 |-> 2, sep |-> "-"],
       [lo1 |-> 2, hi1 |-> 2, lo2 |-> 2, hi2 |-> 2, n3 |-> 4, sep |-> "/"],
       [lo1 |-> 2, hi1 |-> 2, lo2 |-> 2, hi2 |-> 2, n3 |-> 4, sep |-> "-"],
       [lo1 |-> 1, hi1 |-> 2, lo2 |-> 1, hi2 |-> 2, n3 |-> 4, sep |-> "/"] >>

\* re.search of \d{lo1,hi1} sep \d{lo2,hi2} sep \d{n3} in text: the leftmost
\* match, the quantifiers greedy; its digit groups, or None. A match m is
\* <<offset, digits of the first group, digits of the second>>
SearchDatePattern(text, p) ==
    LET matches ==
            {m \in (0..Len(text)) \X (p.lo1..p.hi1) \X (p.lo2..p.hi2) :
                /\ AllDigits(text, m[1], m[2])
                /\ OccursAt(text, <<p.sep>>, m[1] + m[2])
                /\ AllDigits(text, m[1] + m[2] + 1, m[3])
                /\ OccursAt(text, <<p.sep>>, m[1] + m[2] + 1 + m[3])
                /\ AllDigits(text, m[1] + m[2] + m[3] + 2, p.n3)}
        Before(a, b) ==
            \/ a[1] < b[1]
            \/ a[1] = b[1] /\ a[2] > b[2]
            \/ a[1] = b[1] /\ a[2] = b[2] /\ a[3] >= b[3]
        Groups(m) ==
            << SubSeq(text, m[1] + 1, m[1] + m[2]),
               SubSeq(text, m[1] + m[2] + 2, m[1] + m[2] + 1 + m[3]),
               SubSeq(text, m[1] + m[2] + m[3] + 3, m[1] + m[2] + m[3] + 2 + p.n3) >>
    IN  IF matches = {} THEN None
        ELSE Groups(CHOOSE a \in matches : \A b \in matches : Before(a, b))

\* dateutil.parser.parse(match.group()).strftime(...) of three numbers, g the
\* groups or None: a first group of four digits is the year; otherwise the year
\* is last and the month first, unless the first number is above 12; None when
\* there is no match or the parser raises
ParseMatch(g) ==
    IF g = None THEN None
    ELSE LET a == Number(g[1])
             b == Number(g[2])
             c == Number(g[3])
             date == IF Len(g[1]) = 4 THEN [y |-> a, m |-> b, d |-> c]
                     ELSE IF a > 12 THEN [y |-> c, m |-> b, d |-> a]
                     ELSE [y |-> c, m |-> a, d |-> b]
         IN  IF IsValidDate(date.y, date.m, date.d) THEN strftime(date) ELSE None

\* value, or otherwise when value is None
OrElse(value, otherwise) == IF value # None THEN value ELSE otherwise

\* the date_patterns loop from pattern i on: the first pattern that matches and
\* parses decides
RECURSIVE ParseDatePatterns(_, _)
ParseDatePatterns(text, i) ==
    IF i > Len(date_patterns) THEN None
    ELSE OrElse(ParseMatch(SearchDatePattern(text, date_patterns[i])),
                ParseDatePatterns(text, i + 1))

\* the maximal runs of letters of s
AlphaTokens(s) ==
    {SubSeq(s, i, j) : <<i, j>> \in
        {p \in (1..Len(s)) \X (1..Len(s)) :
            /\ p[1] <= p[2]
            /\ \A k \in p[1]..p[2] : s[k] \in Letters
            /\ (p[1] = 1 \/ s[p[1] - 1] \notin Letters)
            /\ (p[2] = Len(s) \/ s[p[2] + 1] \notin Letters)}}

\* What dateutil.parser.parse(text, fuzzy=True).strftime(...) can give: the
\* parser raises ("String does not contain a date") on a text with no digit
\* and no month or weekday word; on any other text it either raises or finds
\* some date, here the current one
FuzzyOutcomes(text, today) ==
    LET t == strip(lower(text))
    IN  IF (\A i \in 1..Len(t) : t[i] \notin Digits) /\ AlphaTokens(t) \cap DateutilWords = {}
        THEN {None}
        ELSE {None, strftime(today)}

\* the weekday loop without the test for "next", and keeping today when it is
\* the day named
WeekdayRule_NoNext(text, today) ==
    LET named == {i \in 1..7 : Contains(text, weekdays[i])}
        first == CHOOSE i \in named : \A j \in named : i <= j
        days_ahead == (first - 1) - weekday(today)
    IN  IF named = {} THEN None
        ELSE strftime(AddDays(today, IF days_ahead < 0 THEN days_ahead + 7 ELSE days_ahead))

\* the weekday loop with "next" adding a week to the next occurrence of the
\* day
WeekdayRule_NextAddsWeek(text, today) ==
    LET hits == {i \in 1..Len(weekdays) : Contains(text, weekdays[i])}
    IN  IF hits = {} THEN None
        ELSE LET i == CHOOSE h \in hits : \A g \in hits : h <= g
                 days_ahead == (i - 1) - weekday(today)
                 nearest == IF days_ahead <= 0 THEN days_ahead + 7 ELSE days_ahead
             IN  strftime(AddDays(today, IF Contains(text, WordNext)
                                         THEN nearest + 7 ELSE nearest))

\* the weekday loop: the first name of the dict that the text contains
WeekdayRule(text, today) ==
    LET hits == {i \in 1..Len(weekdays) : Contains(text, weekdays[i])}
    IN  IF hits = {} THEN None
        ELSE LET i == CHOOSE h \in hits : \A g \in hits : h <= g
                 day_num == i - 1
                 days_ahead == day_num - weekday(today)
                 ahead == IF Contains(text, WordNext) \/ days_ahead <= 0
                          THEN days_ahead + 7 ELSE days_ahead
             IN  strftime(AddDays(today, ahead))

\* extract_date computing tomorrow, yesterday and next week with
\* today.replace(day=...), which raises at the end of a month
DateRules_ReplaceDay(input, today) ==
    LET text == strip(lower(input))
        replaced(n) == IF IsValidDate(today.y, today.m, today.d + n)
                       THEN strftime(Date(today.y, today.m, today.d + n)) ELSE None
    IN  IF Contains(text, WordToday) THEN strftime(today)
        ELSE IF Contains(text, WordTomorrow) THEN replaced(1)
        ELSE IF Contains(text, WordYesterday) THEN replaced(-1)
        ELSE IF Contains(text, WordNextWeek) THEN replaced(7)
        ELSE IF Contains(text, WordNextMonth) THEN strftime(AddOneMonth(today))
        ELSE OrElse(WeekdayRule(text, today), ParseDatePatterns(text, 1))

\* extract_date with the weekday loop run before the relative phrases
DateRules_WeekdayFirst(input, today) ==
    LET text == strip(lower(input))
        Relative(otherwise) ==
            IF Contains(text, WordToday) THEN strftime(today)
            ELSE IF Contains(text, WordTomorrow) THEN strftime(AddDays(today, 1))
            ELSE IF Contains(text, WordYesterday) THEN strftime(AddDays(today, -1))
            ELSE IF Contains(text, WordNextWeek) THEN strftime(AddDays(today, 7))
            ELSE IF Contains(text, WordNextMonth) THEN strftime(AddOneMonth(today))
            ELSE otherwise
    IN  OrElse(WeekdayRule(text, today), Relative(ParseDatePatterns(text, 1)))

\* DateExtractor.extract_date up to the final fuzzy parse, with
\* datetime.now().date() = today: the date it returns, or None when it goes
\* on to the fuzzy parse
DateRules(input, today) ==
    LET text == strip(lower(input))
    IN  IF Contains(text, WordToday) THEN strftime(today)
        ELSE IF Contains(text, WordTomorrow) THEN strftime(AddDays(today, 1))
        ELSE IF Contains(text, WordYesterday) THEN strftime(AddDays(today, -1))
        ELSE IF Contains(text, WordNextWeek) THEN strftime(AddDays(today, 7))
        ELSE IF Contains(text, WordNextMonth) THEN strftime(AddOneMonth(today))
        ELSE OrElse(WeekdayRule(text, today), ParseDatePatterns(text, 1))

\* What the date libraries do during one call of extract_date. pads: whether
\* strftime writes %Y with four digits; the C library decides, and glibc
\* writes a year below 1000 without leading zeros. fuzzy: what the final
\* dateutil fuzzy parse gives if it is reached
DateLibs(text, today) == [pads : BOOLEAN, fuzzy : FuzzyOutcomes(text, today)]

\* DateRules and DateLibs for every text and day, computed once
DateRules_of == Table([u \in Texts, t \in Days |-> DateRules(u, t)])

DateLibs_of == Table([u \in Texts, t \in Days |-> DateLibs(u, t)])

RECURSIVE WithoutLeadingZeros(_)
\* a digit string without its leading zeros
WithoutLeadingZeros(s) ==
    IF Len(s) > 1 /\ Head(s) = "0" THEN WithoutLeadingZeros(Tail(s)) ELSE s

\* DateExtractor.extract_date. Each date it returns is written by
\* strftime("%Y-%m-%d"): the year as the library lib writes it
extract_date(input, today, lib) ==
    LET PlatformYear(s) ==
            IF s = None \/ lib.pads THEN s
            ELSE WithoutLeadingZeros(SubSeq(s, 1, 4)) \o SubSeq(s, 5, Len(s))
    IN  PlatformYear(OrElse(DateRules_of[input, today], lib.fuzzy))

(***************************************************************************)
(* conversational_form.py: ConversationalForm over st.session_state        *)
(***************************************************************************)
\* self.form_steps
form_steps == <<"name", "email", "phone", "date", "confirmation">>

\* form_step is "absent" until first assigned and "None" after a reset
StepAbsent == "absent"

StepNone == "None"

\* a dict with no keys
EmptyDict == [k \in {} |-> None]

\* d[k] = v
Put(d, k, v) == [x \in DOMAIN d \cup {k} |-> IF x = k THEN v ELSE d[x]]

\* calendar.month_name[1..12]
month_name ==
    << <<"J","a","n","u","a","r","y">>,
       <<"F","e","b","r","u","a","r","y">>,
       <<"M","a","r","c","h">>,
       <<"A","p","r","i","l">>,
       <<"M","a","y">>,
       <<"J","u","n","e">>,
       <<"J","u","l","y">>,
       <<"A","u","g","u","s","t">>,
       <<"S","e","p","t","e","m","b","e","r">>,
       <<"O","c","t","o","b","e","r">>,
       <<"N","o","v","e","m","b","e","r">>,
       <<"D","e","c","e","m","b","e","r">> >>

\* datetime.strptime(s, "%Y-%m-%d"): the date, or None when it raises
strptime(s) ==
    IF /\ Len(s) = 10
       /\ s[5] = "-" /\ s[8] = "-"
       /\ \A i \in {1, 2, 3, 4, 6, 7, 9, 10} : s[i] \in Digits
       /\ IsValidDate(Number(SubSeq(s, 1, 4)), Number(SubSeq(s, 6, 7)),
                      Number(SubSeq(s, 9, 10)))
    THEN [y |-> Number(SubSeq(s, 1, 4)), m |-> Number(SubSeq(s, 6, 7)),
          d |-> Number(SubSeq(s, 9, 10))]
    ELSE None

\* strftime("%A, %B %d, %Y")
strftime_long(date) ==
    title(weekdays[weekday(date) + 1]) \o <<",", " ">> \o month_name[date.m]
        \o <<" ", Digit(date.d \div 10), Digit(date.d % 10), ",", " ">>
        \o SubSeq(strftime(date), 1, 4)

\* the dict a _process_* method returns; raised is the exception it ends in
Reply(template, args, completed, needs) ==
    [response |-> [template |-> template, args |-> args],
     form_completed |-> completed, needs_input |-> needs, raised |-> "none"]

\* get_current_step: session_state.get("form_step", "name")
get_current_step(ss) == IF ss.form_step = StepAbsent THEN "name" ELSE ss.form_step

\* is_form_active
is_form_active(ss) == ss.collecting_form

\* _process_name going on to the phone step
_process_name_SkipEmail(ss, user_input) ==
    LET v == validate_name_of[user_input]
    IN  IF v.is_valid
        THEN [ss |-> [ss EXCEPT !.form_data = Put(ss.form_data, "name", titled_of[user_input]),
                                !.form_step = "phone"],
              result |-> Reply("name_accepted", <<titled_of[user_input]>>, FALSE, TRUE)]
        ELSE [ss |-> ss,
              result |-> Reply("name_rejected", <<v.message>>, FALSE, TRUE)]

_process_name(ss, user_input) ==
    LET v == validate_name_of[user_input]
    IN  IF v.is_valid
        THEN [ss |-> [ss EXCEPT !.form_data = Put(ss.form_data, "name", titled_of[user_input]),
                                !.form_step = "email"],
              result |-> Reply("name_accepted", <<titled_of[user_input]>>, FALSE, TRUE)]
        ELSE [ss |-> ss,
              result |-> Reply("name_rejected", <<v.message>>, FALSE, TRUE)]

\* _process_email with the address stored before it is validated
_process_email_StoreBeforeValidate(ss, user_input) ==
    LET v == validate_email_of[user_input]
        stored == [ss EXCEPT !.form_data = Put(ss.form_data, "email", lowered_of[user_input])]
    IN  IF v.is_valid
        THEN [ss |-> [stored EXCEPT !.form_step = "phone"],
              result |-> Reply("email_accepted", << >>, FALSE, TRUE)]
        ELSE [ss |-> stored,
              result |-> Reply("email_rejected", <<v.message>>, FALSE, TRUE)]

\* _process_email storing the address in the case it was typed in
_process_email_KeepCase(ss, user_input) ==
    LET v == validate_email_of[user_input]
    IN  IF v.is_valid
        THEN [ss |-> [ss EXCEPT !.form_data = Put(ss.form_data, "email", strip(user_input)),
                                !.form_step = "phone"],
              result |-> Reply("email_accepted", << >>, FALSE, TRUE)]
        ELSE [ss |-> ss,
              result |-> Reply("email_rejected", <<v.message>>, FALSE, TRUE)]

_process_email(ss, user_input) ==
    LET v == validate_email_of[user_input]
    IN  IF v.is_valid
        THEN [ss |-> [ss EXCEPT !.form_data = Put(ss.form_data, "email", lowered_of[user_input]),
                                !.form_step = "phone"],
              result |-> Reply("email_accepted", << >>, FALSE, TRUE)]
        ELSE [ss |-> ss,
              result |-> Reply("email_rejected", <<v.message>>, FALSE, TRUE)]

\* _process_phone storing the number as it was typed
_process_phone_StoreRaw(ss, user_input) ==
    LET v == validate_phone_of[user_input]
    IN  IF v.is_valid
        THEN [ss |-> [ss EXCEPT !.form_data = Put(ss.form_data, "phone", strip(user_input)),
                                !.form_step = "date"],
              result |-> Reply("phone_accepted", << >>, FALSE, TRUE)]
        ELSE [ss |-> ss,
              result |-> Reply("phone_rejected", <<v.message>>, FALSE, TRUE)]

_process_phone(ss, user_input) ==
    LET v == validate_phone_of[user_input]
        formatted_phone == IF Contains(v.message, ColonSpace)
                           THEN SplitLast(v.message, ColonSpace) ELSE user_input
    IN  IF v.is_valid
        THEN [ss |-> [ss EXCEPT !.form_data = Put(ss.form_data, "phone", formatted_phone),
                                !.form_step = "date"],
              result |-> Reply("phone_accepted", << >>, FALSE, TRUE)]
        ELSE [ss |-> ss,
              result |-> Reply("phone_rejected", <<v.message>>, FALSE, TRUE)]

\* Store(extracted_date) is the method from the value extract_date returned:
\* strptime raises on None; the confirmation text reads name, email and phone
\* of form_data, and a KeyError there comes after the assignments; the bare
\* except answers both with the same reply
_process_date(ss, user_input, today, lib) ==
    LET Store(extracted_date) ==
            LET date_obj == strptime(extracted_date)
                formatted_date == strftime_long(date_obj)
                form_data == Put(Put(ss.form_data, "date", extracted_date),
                                 "formatted_date", formatted_date)
                stored == [ss EXCEPT !.form_data = form_data,
                                     !.form_step = "confirmation"]
                failed == Reply("date_rejected", << >>, FALSE, TRUE)
            IN  IF extracted_date # None /\ date_obj # None
                THEN IF {"name", "email", "phone"} \subseteq DOMAIN form_data
                     THEN [ss |-> stored,
                           result |-> Reply("confirm_prompt",
                                            <<form_data["name"], form_data["email"],
                                              form_data["phone"], formatted_date>>,
                                            FALSE, TRUE)]
                     ELSE [ss |-> stored, result |-> failed]
                ELSE [ss |-> ss, result |-> failed]
    IN  Store(extract_date(user_input, today, lib))

AffirmativeWords == { <<"y","e","s">>, <<"c","o","r","r","e","c","t">>, <<"c","o","n","f","i","r","m">>, <<"y">> }

NegativeWords == { <<"n","o">>, <<"i","n","c","o","r","r","e","c","t">>, <<"w","r","o","n","g">>, <<"n">> }

\* any(word in user_input_lower for word in ['yes', 'correct', 'confirm', 'y'])
IsAffirmative(user_input) ==
    \E word \in AffirmativeWords : Contains(strip(lower(user_input)), word)

\* any(word in user_input_lower for word in ['no', 'incorrect', 'wrong', 'n'])
IsNegative(user_input) ==
    \E word \in NegativeWords : Contains(strip(lower(user_input)), word)

IsAffirmative_of == Table([u \in Texts |-> IsAffirmative(u)])

IsNegative_of == Table([u \in Texts |-> IsNegative(u)])

\* _process_confirmation recording form_data after it was cleared
_process_confirmation_AppendAfterClear(ss, user_input, timestamp) ==
    LET cleaned == [ss EXCEPT !.completed_forms =
                                  Append(@, Put(EmptyDict, "timestamp", timestamp)),
                              !.form_step = StepNone,
                              !.form_data = EmptyDict,
                              !.collecting_form = FALSE]
    IN  IF IsAffirmative_of[user_input]
        THEN [ss |-> cleaned, result |-> Reply("confirmed", << >>, TRUE, FALSE)]
        ELSE IF IsNegative_of[user_input]
        THEN [ss |-> [ss EXCEPT !.form_step = "name", !.form_data = EmptyDict],
              result |-> Reply("restart", << >>, FALSE, TRUE)]
        ELSE [ss |-> ss, result |-> Reply("confirm_reprompt", << >>, FALSE, TRUE)]

\* _process_confirmation going back to the name step with the fields kept
_process_confirmation_KeepFields(ss, user_input, timestamp) ==
    LET form_data == ss.form_data
        cleaned == [ss EXCEPT !.completed_forms =
                                  Append(@, Put(form_data, "timestamp", timestamp)),
                              !.form_step = StepNone,
                              !.form_data = EmptyDict,
                              !.collecting_form = FALSE]
    IN  IF IsAffirmative_of[user_input]
        THEN [ss |-> cleaned, result |-> Reply("confirmed", << >>, TRUE, FALSE)]
        ELSE IF IsNegative_of[user_input]
        THEN [ss |-> [ss EXCEPT !.form_step = "name"],
              result |-> Reply("restart", << >>, FALSE, TRUE)]
        ELSE [ss |-> ss, result |-> Reply("confirm_reprompt", << >>, FALSE, TRUE)]

\* _process_confirmation testing for a negative reply first
_process_confirmation_NegativeFirst(ss, user_input, timestamp) ==
    LET form_data == ss.form_data
        cleaned == [ss EXCEPT !.completed_forms =
                                  Append(@, Put(form_data, "timestamp", timestamp)),
                              !.form_step = StepNone,
                              !.form_data = EmptyDict,
                              !.collecting_form = FALSE]
    IN  IF IsNegative_of[user_input]
        THEN [ss |-> [ss EXCEPT !.form_step = "name", !.form_data = EmptyDict],
              result |-> Reply("restart", << >>, FALSE, TRUE)]
        ELSE IF IsAffirmative_of[user_input]
        THEN IF {"name", "email", "phone", "formatted_date"} \subseteq DOMAIN form_data
             THEN [ss |-> cleaned,
                   result |-> Reply("confirmed",
                                    <<form_data["name"], form_data["email"],
                                      form_data["phone"], form_data["formatted_date"]>>,
                                    TRUE, FALSE)]
             ELSE [ss |-> cleaned,
                   result |-> [Reply("confirmed", << >>, TRUE, FALSE)
                                  EXCEPT !.raised = "KeyError"]]
        ELSE [ss |-> ss, result |-> Reply("confirm_reprompt", << >>, FALSE, TRUE)]

\* timestamp is datetime.now().isoformat()
_process_confirmation(ss, user_input, timestamp) ==
    LET form_data == ss.form_data
        cleaned == [ss EXCEPT !.completed_forms =
                                  Append(@, Put(form_data, "timestamp", timestamp)),
                              !.form_step = StepNone,
                              !.form_data = EmptyDict,
                              !.collecting_form = FALSE]
    IN  IF IsAffirmative_of[user_input]
        THEN IF {"name", "email", "phone", "formatted_date"} \subseteq DOMAIN form_data
             THEN [ss |-> cleaned,
                   result |-> Reply("confirmed",
                                    <<form_data["name"], form_data["email"],
                                      form_data["phone"], form_data["formatted_date"]>>,
                                    TRUE, FALSE)]
             ELSE [ss |-> cleaned,
                   result |-> [Reply("confirmed", << >>, TRUE, FALSE)
                                  EXCEPT !.raised = "KeyError"]]
        ELSE IF IsNegative_of[user_input]
        THEN [ss |-> [ss EXCEPT !.form_step = "name", !.form_data = EmptyDict],
              result |-> Reply("restart", << >>, FALSE, TRUE)]
        ELSE [ss |-> ss, result |-> Reply("confirm_reprompt", << >>, FALSE, TRUE)]

\* _handle_unknown_step restarting the form as initialize_form does
_handle_unknown_step_StartForm(ss) ==
    [ss |-> [ss EXCEPT !.collecting_form = TRUE, !.form_step = "name",
                       !.form_data = EmptyDict],
     result |-> Reply("opening_prompt", << >>, FALSE, TRUE)]

_handle_unknown_step(ss) ==
    [ss |-> [ss EXCEPT !.form_step = "name", !.form_data = EmptyDict],
     result |-> Reply("name_prompt", << >>, FALSE, TRUE)]

\* process_form_input: today and timestamp are the clock's date and reading,
\* lib what the date libraries do during the call
process_form_input(ss, user_input, today, lib, timestamp) ==
    LET current_step == get_current_step(ss)
    IN  IF current_step = "name" THEN _process_name(ss, user_input)
        ELSE IF current_step = "email" THEN _process_email(ss, user_input)
        ELSE IF current_step = "phone" THEN _process_phone(ss, user_input)
        ELSE IF current_step = "date" THEN _process_date(ss, user_input, today, lib)
        ELSE IF current_step = "confirmation"
             THEN _process_confirmation(ss, user_input, timestamp)
        ELSE _handle_unknown_step(ss)

\* initialize_form without the reset of form_data
initialize_form_KeepData(ss) ==
    [ss |-> [ss EXCEPT !.collecting_form = TRUE, !.form_step = "name"],
     result |-> Reply("opening_prompt", << >>, FALSE, TRUE)]

\* initialize_form leaving a form that is already active as it is
initialize_form_OnlyWhenInactive(ss) ==
    [ss |-> IF ss.collecting_form THEN ss
            ELSE [ss EXCEPT !.collecting_form = TRUE, !.form_step = "name",
                            !.form_data = EmptyDict],
     result |-> Reply("opening_prompt", << >>, FALSE, TRUE)]

initialize_form(ss) ==
    [ss |-> [ss EXCEPT !.collecting_form = TRUE, !.form_step = "name",
                       !.form_data = EmptyDict],
     result |-> Reply("opening_prompt", << >>, FALSE, TRUE)]

(***************************************************************************)
(* tool_agents.py: ToolAgents                                              *)
(***************************************************************************)
\* appointment_triggers
appointment_triggers ==
    << <<"c","a","l","l"," ","m","e">>,
       <<"c","a","l","l"," ","b","a","c","k">>,
       <<"s","c","h","e","d","u","l","e"," ","c","a","l","l">>,
       <<"b","o","o","k"," ","a","p","p","o","i","n","t","m","e","n","t">>,
       <<"a","p","p","o","i","n","t","m","e","n","t">>,
       <<"m","e","e","t","i","n","g">>,
       <<"t","a","l","k"," ","t","o"," ","s","o","m","e","o","n","e">>,
       <<"s","p","e","a","k"," ","w","i","t","h">>,
       <<"c","o","n","t","a","c","t"," ","m","e">>,
       <<"g","e","t"," ","i","n"," ","t","o","u","c","h">>,
       <<"s","c","h","e","d","u","l","e"," ","m","e","e","t","i","n","g">> >>

\* regular expressions are run as sets of offsets: from the offsets in P, the
\* offsets the next piece of the pattern can end at

\* \b: exactly one of the characters around offset p is a word character
AtWordBoundary(s, P) ==
    {p \in P : (p >= 1 /\ s[p] \in WordChars) # (p < Len(s) /\ s[p + 1] \in WordChars)}

\* (w1|w2|...)
MatchAny(s, P, W) == {p + Len(w) : <<p, w>> \in {x \in P \X W : OccursAt(s, x[2], x[1])}}

\* \s+
MatchSpaces(s, P) ==
    {q \in 0..Len(s) : \E p \in P : p < q /\ \A k \in (p + 1)..q : s[k] \in Whitespace}

\* r'\b(can you|could you|please)\s+(call|contact)\s+me\b'
PoliteCallPattern(s) ==
    LET p1 == MatchAny(s, AtWordBoundary(s, 0..Len(s)),
                       { <<"c","a","n"," ","y","o","u">>,
                       <<"c","o","u","l","d"," ","y","o","u">>,
                       <<"p","l","e","a","s","e">> })
        p2 == MatchAny(s, MatchSpaces(s, p1), { <<"c","a","l","l">>,       <<"c","o","n","t","a","c","t">> })
        p3 == MatchAny(s, MatchSpaces(s, p2), {<<"m","e">>})
    IN  AtWordBoundary(s, p3) # {}

\* r'\b(schedule|book)\s+(a|an)?\s*(call|appointment|meeting)\b'
ScheduleCallPattern(s) ==
    LET p1 == MatchAny(s, AtWordBoundary(s, 0..Len(s)), { <<"s","c","h","e","d","u","l","e">>,       <<"b","o","o","k">> })
        p2 == MatchSpaces(s, p1)
        p3 == p2 \cup MatchAny(s, p2, { <<"a">>,       <<"a","n">> })
        p4 == p3 \cup MatchSpaces(s, p3)
        p5 == MatchAny(s, p4,
                       { <<"c","a","l","l">>,
                       <<"a","p","p","o","i","n","t","m","e","n","t">>,
                       <<"m","e","e","t","i","n","g">> })
    IN  AtWordBoundary(s, p5) # {}

\* r'\bi\s*(want|need|would like)\s+(to\s+)?(schedule|book)\b'
WantToSchedulePattern(s) ==
    LET p1 == MatchAny(s, AtWordBoundary(s, 0..Len(s)), {<<"i">>})
        p2 == p1 \cup MatchSpaces(s, p1)
        p3 == MatchAny(s, p2, { <<"w","a","n","t">>,
                       <<"n","e","e","d">>,
                       <<"w","o","u","l","d"," ","l","i","k","e">> })
        p4 == MatchSpaces(s, p3)
        p5 == p4 \cup MatchSpaces(s, MatchAny(s, p4, {<<"t","o">>}))
        p6 == MatchAny(s, p5, { <<"s","c","h","e","d","u","l","e">>,       <<"b","o","o","k">> })
    IN  AtWordBoundary(s, p6) # {}

\* should_use_agent matching the message as typed, not lowercased
HasAppointmentTrigger_CaseSensitive(user_input) ==
    LET text == strip(user_input)
    IN  \/ \E i \in 1..Len(appointment_triggers) : Contains(text, appointment_triggers[i])
        \/ PoliteCallPattern(text)
        \/ ScheduleCallPattern(text)
        \/ WantToSchedulePattern(text)

\* should_use_agent below its test of the form: the trigger loop, then the
\* pattern loop
HasAppointmentTrigger(user_input) ==
    LET user_input_lower == strip(lower(user_input))
    IN  IF \E i \in 1..Len(appointment_triggers) :
               Contains(user_input_lower, appointment_triggers[i]) THEN TRUE
        ELSE IF \/ PoliteCallPattern(user_input_lower)
                \/ ScheduleCallPattern(user_input_lower)
                \/ WantToSchedulePattern(user_input_lower) THEN TRUE
        ELSE FALSE

HasAppointmentTrigger_of == Table([u \in Texts |-> HasAppointmentTrigger(u)])

\* should_use_agent without the test of the active form
should_use_agent_IgnoreForm(ss, user_input) == HasAppointmentTrigger_of[user_input]

\* should_use_agent
should_use_agent(ss, user_input) ==
    IF is_form_active(ss) THEN TRUE ELSE HasAppointmentTrigger_of[user_input]

\* schedule_appointment_tool: its reply goes to the agent, not to the user,
\* and it swallows every exception
schedule_appointment_tool(ss, input_text, today, lib, timestamp) ==
    IF ~ is_form_active(ss) THEN initialize_form(ss).ss
    ELSE process_form_input(ss, input_text, today, lib, timestamp).ss

\* get_completed_appointments_tool: the "appointments" list of the JSON it
\* returns, or None for "No completed appointments found."
get_completed_appointments_tool(ss) ==
    LET completed_forms == ss.completed_forms
        shown == IF Len(completed_forms) <= 5 THEN completed_forms
                 ELSE SubSeq(completed_forms, Len(completed_forms) - 4, Len(completed_forms))
        Get(form, key, default) == IF key \in DOMAIN form THEN form[key] ELSE default
        NA == <<"N", "/", "A">>
        Appointment(i, form) ==
            [number |-> i,
             name |-> Get(form, "name", NA),
             email |-> Get(form, "email", NA),
             phone |-> Get(form, "phone", NA),
             date |-> Get(form, "formatted_date", Get(form, "date", NA)),
             requested |-> IF Get(form, "timestamp", << >>) # << >>
                           THEN SubSeq(form["timestamp"], 1,
                                       IF Len(form["timestamp"]) < 19
                                       THEN Len(form["timestamp"]) ELSE 19)
                           ELSE NA]
    IN  IF completed_forms = << >> THEN None
        ELSE [i \in 1..Len(shown) |-> Appointment(i, shown[i])]

\* what the agent executor may do in one invoke: call schedule_appointment
\* calls times with the user's message (the other tools change no state)
RECURSIVE RunAgentTools(_, _, _, _, _, _)
RunAgentTools(ss, calls, input_text, today, lib, timestamp) ==
    IF calls = 0 THEN ss
    ELSE RunAgentTools(schedule_appointment_tool(ss, input_text, today, lib, timestamp),
                       calls - 1, input_text, today, lib, timestamp)

\* the keywords of the fallback in the except block
FallbackKeywords == { <<"c","a","l","l">>,       <<"a","p","p","o","i","n","t","m","e","n","t">>,       <<"s","c","h","e","d","u","l","e">>,       <<"b","o","o","k">> }

\* any(keyword in user_input.lower() for keyword in [...])
HasFallbackKeyword(user_input) ==
    \E keyword \in FallbackKeywords : Contains(lower(user_input), keyword)

HasFallbackKeyword_of == Table([u \in Texts |-> HasFallbackKeyword(u)])

\* the except block of process_with_agent; e is str(e)
AgentExcept(ss, user_input, e) ==
    IF HasFallbackKeyword_of[user_input]
    THEN [ss |-> initialize_form(ss).ss,
          response |-> initialize_form(ss).result.response,
          tool_used |-> "schedule_appointment_fallback", success |-> TRUE]
    ELSE [ss |-> ss,
          response |-> [template |-> "agent_error", args |-> <<e>>],
          tool_used |-> "None", success |-> FALSE]

\* process_with_agent without the test for an active form: every message
\* goes to agent.invoke
process_with_agent_AlwaysInvoke(ss, user_input, has_agent, invoke, today, lib, timestamp) ==
    IF ~ has_agent
    THEN [ss |-> ss, response |-> [template |-> "agent_unavailable", args |-> << >>],
          tool_used |-> "None", success |-> FALSE]
    ELSE LET InvokeResult(after) ==
                 IF invoke.error = None
                 THEN [ss |-> after,
                       response |-> [template |-> "agent_output", args |-> << >>],
                       tool_used |-> "agent", success |-> TRUE]
                 ELSE AgentExcept(after, user_input, invoke.error)
         IN  InvokeResult(RunAgentTools(ss, invoke.calls, user_input, today, lib,
                                        timestamp))

\* process_with_agent treating a missing executor as an error of the call, so
\* that the keyword fallback of the except block runs
process_with_agent_FallbackWithoutAgent(ss, user_input, has_agent, invoke, today, lib, timestamp) ==
    IF ~ has_agent
    THEN AgentExcept(ss, user_input, ErrBoom)
    ELSE IF is_form_active(ss)
    THEN LET FormResult(r) ==
                 IF r.result.raised = "none"
                 THEN [ss |-> r.ss, response |-> r.result.response,
                       tool_used |-> "schedule_appointment", success |-> TRUE]
                 ELSE AgentExcept(r.ss, user_input, <<"'", "n", "a", "m", "e", "'">>)
         IN  FormResult(process_form_input(ss, user_input, today, lib, timestamp))
    ELSE LET InvokeResult(after) ==
                 IF invoke.error = None
                 THEN [ss |-> after,
                       response |-> [template |-> "agent_output", args |-> << >>],
                       tool_used |-> "agent", success |-> TRUE]
                 ELSE AgentExcept(after, user_input, invoke.error)
         IN  InvokeResult(RunAgentTools(ss, invoke.calls, user_input, today, lib,
                                        timestamp))

\* process_with_agent. has_agent: the executor exists; invoke: what agent.invoke
\* does, [calls, error], error being None or the str() of what it raises
process_with_agent(ss, user_input, has_agent, invoke, today, lib, timestamp) ==
    IF ~ has_agent
    THEN [ss |-> ss, response |-> [template |-> "agent_unavailable", args |-> << >>],
          tool_used |-> "None", success |-> FALSE]
    ELSE IF is_form_active(ss)
    THEN LET FormResult(r) ==
                 IF r.result.raised = "none"
                 THEN [ss |-> r.ss, response |-> r.result.response,
                       tool_used |-> "schedule_appointment", success |-> TRUE]
                 ELSE AgentExcept(r.ss, user_input, <<"'", "n", "a", "m", "e", "'">>)
         IN  FormResult(process_form_input(ss, user_input, today, lib, timestamp))
    ELSE LET InvokeResult(after) ==
                 IF invoke.error = None
                 THEN [ss |-> after,
                       response |-> [template |-> "agent_output", args |-> << >>],
                       tool_used |-> "agent", success |-> TRUE]
                 ELSE AgentExcept(after, user_input, invoke.error)
         IN  InvokeResult(RunAgentTools(ss, invoke.calls, user_input, today, lib,
                                        timestamp))

\* reset_agent_state emptying the message log as Clear Chat does
reset_agent_state_ClearLog(ss) ==
    [ss EXCEPT !.messages = << >>, !.collecting_form = FALSE, !.form_step = StepNone,
               !.form_data = EmptyDict]

\* reset_agent_state
reset_agent_state(ss) ==
    [ss EXCEPT !.collecting_form = FALSE, !.form_step = StepNone, !.form_data = EmptyDict]

(***************************************************************************)
(* chatbot.py: ChatBot                                                     *)
(***************************************************************************)
\* call_keywords
call_keywords ==
    << <<"c","a","l","l"," ","m","e">>,
       <<"c","a","l","l"," ","b","a","c","k">>,
       <<"s","c","h","e","d","u","l","e"," ","c","a","l","l">>,
       <<"b","o","o","k"," ","a","p","p","o","i","n","t","m","e","n","t">>,
       <<"a","p","p","o","i","n","t","m","e","n","t">>,
       <<"m","e","e","t","i","n","g">>,
       <<"t","a","l","k"," ","t","o"," ","s","o","m","e","o","n","e">>,
       <<"s","p","e","a","k"," ","w","i","t","h">>,
       <<"c","o","n","t","a","c","t"," ","m","e">>,
       <<"g","e","t"," ","i","n"," ","t","o","u","c","h">>,
       <<"s","c","h","e","d","u","l","e"," ","m","e","e","t","i","n","g">> >>

\* detect_call_request with the bare word 'call' among its keywords
detect_call_request_AnyCall(message) ==
    \/ \E i \in 1..Len(call_keywords) : Contains(lower(message), call_keywords[i])
    \/ Contains(lower(message), <<"c","a","l","l">>)

\* detect_call_request
detect_call_request(message) ==
    \E i \in 1..Len(call_keywords) : Contains(lower(message), call_keywords[i])

detect_call_request_of == Table([u \in Texts |-> detect_call_request(u)])

\* The loop of _format_chat_history over the roles of chat_history[-5:].
\* user_msg is "unbound" before its first assignment, "set" after a user
\* entry and "None" after a pair was formed; reading it unbound raises
\* UnboundLocalError. pairs counts the (user, assistant) pairs formed.
RECURSIVE FormatLoop(_, _, _)
FormatLoop(roles, user_msg, pairs) ==
    IF roles = << >> THEN [raised |-> FALSE, pairs |-> pairs]
    ELSE IF Head(roles) = "user" THEN FormatLoop(Tail(roles), "set", pairs)
    ELSE IF user_msg = "unbound" THEN [raised |-> TRUE, pairs |-> pairs]
    ELSE IF user_msg = "set" THEN FormatLoop(Tail(roles), "None", pairs + 1)
    ELSE FormatLoop(Tail(roles), user_msg, pairs)

\* chat_history[-n:]
LastN(seq, n) == IF Len(seq) <= n THEN seq ELSE SubSeq(seq, Len(seq) - n + 1, Len(seq))

_format_chat_history(chat_history) == FormatLoop(LastN(chat_history, 5), "unbound", 0)

\* get_response. has_chain: the chain exists; qa_error and llm_error: None, or
\* the str() of what the chain call and the direct LLM call raise
get_response(message, chat_history, has_chain, qa_error, llm_error) ==
    LET chain_used == has_chain /\ ~ detect_call_request_of[message]
        chain_ok == /\ chain_used
                    /\ ~ _format_chat_history(chat_history).raised
                    /\ qa_error = None
    IN  IF chain_ok THEN [template |-> "qa_answer", args |-> << >>]
        ELSE IF llm_error = None THEN [template |-> "llm_answer", args |-> << >>]
        ELSE [template |-> "llm_apology", args |-> << >>]

(***************************************************************************)
(* app.py: the handlers of the Streamlit page                              *)
(***************************************************************************)
\* initialize_session_state
InitialSession ==
    [messages |-> << >>, collecting_form |-> FALSE, form_step |-> StepAbsent,
     form_data |-> EmptyDict, completed_forms |-> << >>]

\* not user_input.strip()
IsBlank(user_input) == strip(user_input) = << >>

IsBlank_of == Table([u \in Texts |-> IsBlank(u)])

\* process_user_input appending the reply only when no collaborator raised
process_user_input_DropFailedReply(ss, user_input, env) ==
    IF IsBlank_of[user_input]
    THEN [ss |-> ss, response |-> [template |-> "none", args |-> << >>], route |-> "none"]
    ELSE LET asked == [ss EXCEPT !.messages = Append(@, "user")]
             use_agent == should_use_agent(asked, user_input) \/ is_form_active(asked)
             failed == IF use_agent THEN env.invoke.error # None
                       ELSE env.llm_error # None
             AgentAnswer(result) ==
                 [ss |-> [result.ss EXCEPT !.messages =
                                               IF failed THEN @ ELSE Append(@, "assistant")],
                  response |-> result.response, route |-> "FORM"]
             answer == get_response(user_input,
                                    SubSeq(asked.messages, 1, Len(asked.messages) - 1),
                                    env.qa_chain, env.qa_error, env.llm_error)
         IN  IF use_agent
             THEN AgentAnswer(process_with_agent(asked, user_input, env.agent, env.invoke,
                                                 env.today, env.lib, env.timestamp))
             ELSE [ss |-> [asked EXCEPT !.messages =
                                            IF failed THEN @ ELSE Append(@, "assistant")],
                   response |-> answer, route |-> "QA"]

\* process_user_input testing for a blank input after the message was logged
process_user_input_LogThenTestBlank(ss, user_input, env) ==
    LET asked == [ss EXCEPT !.messages = Append(@, "user")]
        use_agent == should_use_agent(asked, user_input) \/ is_form_active(asked)
        AgentAnswer(result) ==
            [ss |-> [result.ss EXCEPT !.messages = Append(@, "assistant")],
             response |-> result.response, route |-> "FORM"]
        answer == get_response(user_input,
                               SubSeq(asked.messages, 1, Len(asked.messages) - 1),
                               env.qa_chain, env.qa_error, env.llm_error)
    IN  IF IsBlank_of[user_input]
        THEN [ss |-> asked, response |-> [template |-> "none", args |-> << >>],
              route |-> "none"]
        ELSE IF use_agent
        THEN AgentAnswer(process_with_agent(asked, user_input, env.agent, env.invoke,
                                            env.today, env.lib, env.timestamp))
        ELSE [ss |-> [asked EXCEPT !.messages = Append(@, "assistant")],
              response |-> answer, route |-> "QA"]

\* process_user_input. messages holds the role of every entry of the log;
\* the content of the entry appended last is returned as response. env
\* carries what the collaborators and the clock do during the call
process_user_input(ss, user_input, env) ==
    IF IsBlank_of[user_input]
    THEN [ss |-> ss, response |-> [template |-> "none", args |-> << >>], route |-> "none"]
    ELSE LET asked == [ss EXCEPT !.messages = Append(@, "user")]
             use_agent == should_use_agent(asked, user_input) \/ is_form_active(asked)
             AgentAnswer(result) ==
                 [ss |-> [result.ss EXCEPT !.messages = Append(@, "assistant")],
                  response |-> result.response, route |-> "FORM"]
             answer == get_response(user_input,
                                    SubSeq(asked.messages, 1, Len(asked.messages) - 1),
                                    env.qa_chain, env.qa_error, env.llm_error)
         IN  IF use_agent
             THEN AgentAnswer(process_with_agent(asked, user_input, env.agent, env.invoke,
                                                 env.today, env.lib, env.timestamp))
             ELSE [ss |-> [asked EXCEPT !.messages = Append(@, "assistant")],
                   response |-> answer, route |-> "QA"]

\* display_completed_appointments showing every record
display_completed_appointments_ShowAll(ss) ==
    [n \in 1..Len(ss.completed_forms) |->
        [number |-> n,
         name |-> ss.completed_forms[n]["name"],
         email |-> ss.completed_forms[n]["email"],
         phone |-> ss.completed_forms[n]["phone"],
         date |-> ss.completed_forms[n]["formatted_date"],
         requested |-> ss.completed_forms[n]["timestamp"]]]

\* display_completed_appointments: the expanders written to the sidebar, from
\* top to bottom; number is the one of the title "Appointment {i+1}"
display_completed_appointments(ss) ==
    LET completed_forms == ss.completed_forms
        shown == IF Len(completed_forms) <= 3 THEN completed_forms
                 ELSE SubSeq(completed_forms, Len(completed_forms) - 2, Len(completed_forms))
        Expander(i, form) ==
            [number |-> i + 1,
             name |-> form["name"],
             email |-> form["email"],
             phone |-> form["phone"],
             date |-> IF "formatted_date" \in DOMAIN form
                      THEN form["formatted_date"] ELSE form["date"],
             requested |-> SubSeq(form["timestamp"], 1,
                                  IF Len(form["timestamp"]) < 19
                                  THEN Len(form["timestamp"]) ELSE 19)]
    IN  [n \in 1..Len(shown) |-> Expander(n - 1, shown[n])]

\* the Clear Chat button clearing the recorded appointments as well
clear_chat_ForgetAppointments(ss) ==
    [ss EXCEPT !.messages = << >>, !.collecting_form = FALSE,
               !.form_step = StepNone, !.form_data = EmptyDict,
               !.completed_forms = << >>]

\* the Clear Chat button
clear_chat(ss) ==
    [ss EXCEPT !.messages = << >>, !.collecting_form = FALSE,
               !.form_step = StepNone, !.form_data = EmptyDict]

(***************************************************************************)
(* Bounds and the environment                                              *)
(***************************************************************************)
\* the log holds at most MaxMessages entries
MaxMessages == 12

\* at most MaxCompleted appointments are recorded
MaxCompleted == 1

\* the agent calls schedule_appointment at most MaxToolCalls times per invoke
MaxToolCalls == 2

\* what agent.invoke can do
AgentInvokes == {[calls |-> n, error |-> e] : n \in 0..MaxToolCalls, e \in {None, ErrBoom}}

\* datetime.now().isoformat(): the date and the reading of the clock
isoformat(date, reading) ==
    strftime(date) \o <<"T", Digit((reading \div 10) % 10), Digit(reading % 10)>>

NoResponse == [template |-> "none", args |-> << >>]

(***************************************************************************)
(* State                                                                   *)
(***************************************************************************)
VARIABLES
    session_state,  \* st.session_state: messages, collecting_form, form_step,
                    \* form_data, completed_forms
    current_date,   \* datetime.now().date()
    clock,          \* the readings datetime.now() has given so far
    agent,          \* ToolAgents.agent is not None
    qa_chain,       \* ChatBot.qa_chain is not None
    last            \* the call made last: its input, the step and the active
                    \* flag it found, its reply and its outcome

vars == <<session_state, current_date, clock, agent, qa_chain, last>>

NoCall ==
    [op |-> "none", input |-> None, step |-> "none", active |-> FALSE,
     response |-> NoResponse, route |-> "none", errors |-> {}, value |-> None]

Init ==
    /\ session_state = InitialSession
    /\ current_date = SessionDay
    /\ clock = 0
    /\ agent \in BOOLEAN
    /\ qa_chain \in BOOLEAN
    /\ last = NoCall

\* the bounds on the log and on the appointments
WithinBounds(ss) ==
    /\ Len(ss.messages) <= MaxMessages
    /\ Len(ss.completed_forms) <= MaxCompleted

\* the clock is read once for every appointment recorded
Tick(ss) == clock' = clock + (Len(ss.completed_forms) - Len(session_state.completed_forms))

\* the str() of the exceptions the collaborators raised during the call
RaisedErrors(ss, user_input, env) ==
    LET asked == [ss EXCEPT !.messages = Append(@, "user")]
        use_agent == should_use_agent(asked, user_input) \/ is_form_active(asked)
        chain_used == env.qa_chain /\ ~ detect_call_request_of[user_input]
        history == SubSeq(asked.messages, 1, Len(asked.messages) - 1)
        chain_called == chain_used /\ ~ _format_chat_history(history).raised
    IN  IF IsBlank_of[user_input] THEN {}
        ELSE IF use_agent
        THEN IF env.agent /\ ~ is_form_active(asked) /\ env.invoke.error # None
             THEN {env.invoke.error} ELSE {}
        ELSE (IF chain_called /\ env.qa_error # None THEN {env.qa_error} ELSE {})
             \cup (IF ~ (chain_called /\ env.qa_error = None) /\ env.llm_error # None
                   THEN {env.llm_error} ELSE {})

\* what the collaborators that the call reaches can do: the agent executor
\* when the message goes to the agent and no form is active, the QA chain and
\* the LLM otherwise
Collaborators(ss, user_input) ==
    IF should_use_agent(ss, user_input)
    THEN IF is_form_active(ss)
         THEN {[invoke |-> [calls |-> 0, error |-> None], qa_error |-> None,
                llm_error |-> None]}
         ELSE {[invoke |-> i, qa_error |-> None, llm_error |-> None] : i \in AgentInvokes}
    ELSE {[invoke |-> [calls |-> 0, error |-> None], qa_error |-> q, llm_error |-> l] :
             q \in {None, ErrBoom}, l \in {None, ErrBoom}}

(***************************************************************************)
(* Actions                                                                 *)
(***************************************************************************)
\* a message typed into the chat box: app.py process_user_input
ProcessUserInput ==
    \E user_input \in UserInputs :
      \E c \in Collaborators(session_state, user_input),
         lib \in DateLibs_of[user_input, current_date] :
        LET env == [agent |-> agent, invoke |-> c.invoke, qa_chain |-> qa_chain,
                    qa_error |-> c.qa_error, llm_error |-> c.llm_error,
                    today |-> current_date, lib |-> lib,
                    timestamp |-> isoformat(current_date, clock)]
        IN  \E r \in {process_user_input(session_state, user_input, env)} :
            /\ WithinBounds(r.ss)
            /\ session_state' = r.ss
            /\ Tick(r.ss)
            /\ last' = [op |-> "process_user_input", input |-> user_input,
                        step |-> get_current_step(session_state),
                        active |-> is_form_active(session_state),
                        response |-> r.response, route |-> r.route,
                        errors |-> RaisedErrors(session_state, user_input, env),
                        value |-> None]
            /\ UNCHANGED <<current_date, agent, qa_chain>>

\* the Clear Chat button of app.py
ClearChat ==
    /\ session_state' = clear_chat(session_state)
    /\ last' = [NoCall EXCEPT !.op = "clear_chat",
                              !.step = get_current_step(session_state),
                              !.active = is_form_active(session_state)]
    /\ UNCHANGED <<current_date, clock, agent, qa_chain>>

\* ToolAgents.reset_agent_state
ResetAgentState ==
    /\ session_state' = reset_agent_state(session_state)
    /\ last' = [NoCall EXCEPT !.op = "reset_agent_state",
                              !.step = get_current_step(session_state),
                              !.active = is_form_active(session_state)]
    /\ UNCHANGED <<current_date, clock, agent, qa_chain>>

\* ConversationalForm.initialize_form called directly
InitializeForm ==
    LET r == initialize_form(session_state)
    IN  /\ session_state' = r.ss
        /\ last' = [NoCall EXCEPT !.op = "initialize_form",
                                  !.step = get_current_step(session_state),
                                  !.active = is_form_active(session_state),
                                  !.response = r.result.response]
        /\ UNCHANGED <<current_date, clock, agent, qa_chain>>

\* ConversationalForm.process_form_input called directly
ProcessFormInput ==
    \E user_input \in FormInputs : \E lib \in DateLibs_of[user_input, current_date] :
        \E r \in {process_form_input(session_state, user_input, current_date, lib,
                                     isoformat(current_date, clock))} :
            /\ WithinBounds(r.ss)
            /\ session_state' = r.ss
            /\ Tick(r.ss)
            /\ last' = [NoCall EXCEPT
                            !.op = "process_form_input", !.input = user_input,
                            !.step = get_current_step(session_state),
                            !.active = is_form_active(session_state),
                            !.response = r.result.response,
                            !.value = IF get_current_step(session_state) = "date"
                                      THEN extract_date(user_input, current_date, lib)
                                      ELSE None]
            /\ UNCHANGED <<current_date, agent, qa_chain>>

\* the application: the chat box and the Clear Chat button
Next == ProcessUserInput \/ ClearChat \/ ResetAgentState

Spec == Init /\ [][Next]_vars

\* the form driven directly, in any order of calls
InitForm ==
    /\ session_state = InitialSession
    /\ current_date = SessionDay
    /\ clock = 0
    /\ agent = TRUE
    /\ qa_chain = TRUE
    /\ last = NoCall

NextForm == InitializeForm \/ ProcessFormInput \/ ClearChat \/ ResetAgentState

SpecForm == InitForm /\ [][NextForm]_vars

\* DateExtractor.extract_date called on its own, on any of the days RefDates
ExtractDate ==
    \E text \in DateTexts : \E lib \in DateLibs_of[text, current_date] :
        /\ last' = [NoCall EXCEPT !.op = "extract_date", !.input = text,
                                  !.value = extract_date(text, current_date, lib)]
        /\ UNCHANGED <<session_state, current_date, clock, agent, qa_chain>>

InitDate ==
    /\ session_state = InitialSession
    /\ current_date \in RefDates
    /\ clock = 0
    /\ agent = TRUE
    /\ qa_chain = TRUE
    /\ last = NoCall

NextDate == ExtractDate

SpecDate == InitDate /\ [][NextDate]_vars

\* the presentation of the appointments recorded so far: completed_forms holds
\* up to MaxRecords records of completed forms, appended at successive
\* readings of the clock
MaxRecords == 6

\* the record _process_confirmation appends for a form with the given name,
\* completed at the given reading of the clock
RecordOf(name, reading) ==
    [name |-> name,
     email |-> <<"a","l","@","x",".","i","o">>,
     phone |-> InPhoneDigits,
     date |-> strftime(AddDays(SessionDay, 1)),
     formatted_date |-> strftime_long(AddDays(SessionDay, 1)),
     timestamp |-> isoformat(SessionDay, reading)]

RecordedNames == {<<"A","l">>, <<"B","o"," ","L","e","e">>}

InitRecords ==
    /\ \E n \in 0..MaxRecords : \E names \in [1..n -> RecordedNames] :
           session_state = [InitialSession EXCEPT
                                !.completed_forms = [i \in 1..n |-> RecordOf(names[i], i)]]
    /\ current_date = SessionDay
    /\ clock = 0
    /\ agent = TRUE
    /\ qa_chain = TRUE
    /\ last = NoCall

\* display_completed_appointments, run when the page is drawn
DisplayCompletedAppointments ==
    /\ last' = [NoCall EXCEPT !.op = "display_completed_appointments",
                              !.value = display_completed_appointments(session_state)]
    /\ UNCHANGED <<session_state, current_date, clock, agent, qa_chain>>

\* the get_completed_appointments tool, called by the agent
GetCompletedAppointments ==
    /\ last' = [NoCall EXCEPT !.op = "get_completed_appointments",
                              !.value = get_completed_appointments_tool(session_state)]
    /\ UNCHANGED <<session_state, current_date, clock, agent, qa_chain>>

NextRecords == DisplayCompletedAppointments \/ GetCompletedAppointments

SpecRecords == InitRecords /\ [][NextRecords]_vars

\* Several browser sessions on one server. Streamlit gives every session its
\* own st.session_state, and initialize_session_state fills each of them; in
\* SpecSessions the variable session_state holds the dict of every session,
\* session_state[c] being what the code run for session c sees as
\* st.session_state. The date and the clock are those of the server.
Sessions == {1, 2}

\* what is typed into the form of either session
SessionInputs == {InAl, InEmail, InPhoneDashes, InTomorrow, InYes}

\* a script run of session c that leaves its st.session_state as after, with
\* the session replaced by a form object that keeps the step of the form in an
\* attribute of its class
RunIn_StepInClassAttribute(states, c, after) ==
    [d \in DOMAIN states |->
        IF d = c THEN after ELSE [states[d] EXCEPT !.form_step = after.form_step]]

\* a script run of session c that leaves its st.session_state as after: the
\* code assigns to st.session_state only
RunIn(states, c, after) == [states EXCEPT ![c] = after]

\* the call made last, and the session it was made in
SessionCall(c, call) == [session |-> c] @@ call

InitSessions ==
    /\ session_state = [c \in Sessions |-> InitialSession]
    /\ current_date = SessionDay
    /\ clock = 0
    /\ agent = TRUE
    /\ qa_chain = TRUE
    /\ last = SessionCall(0, NoCall)

\* initialize_form in one of the sessions
SessionInitializeForm ==
    \E c \in Sessions : \E r \in {initialize_form(session_state[c])} :
        /\ session_state' = RunIn(session_state, c, r.ss)
        /\ last' = SessionCall(c, [NoCall EXCEPT !.op = "initialize_form",
                                                  !.response = r.result.response])
        /\ UNCHANGED <<current_date, clock, agent, qa_chain>>

\* process_form_input in one of the sessions
SessionProcessFormInput ==
    \E c \in Sessions, user_input \in SessionInputs :
      \E lib \in DateLibs_of[user_input, current_date] :
        \E r \in {process_form_input(session_state[c], user_input, current_date, lib,
                                     isoformat(current_date, clock))} :
            /\ WithinBounds(r.ss)
            /\ session_state' = RunIn(session_state, c, r.ss)
            /\ clock' = clock + (Len(r.ss.completed_forms)
                                    - Len(session_state[c].completed_forms))
            /\ last' = SessionCall(c, [NoCall EXCEPT
                                          !.op = "process_form_input",
                                          !.input = user_input,
                                          !.step = get_current_step(session_state[c]),
                                          !.active = is_form_active(session_state[c]),
                                          !.response = r.result.response])
            /\ UNCHANGED <<current_date, agent, qa_chain>>

\* the Clear Chat button in one of the sessions
SessionClearChat ==
    \E c \in Sessions :
        /\ session_state' = RunIn(session_state, c, clear_chat(session_state[c]))
        /\ last' = SessionCall(c, [NoCall EXCEPT !.op = "clear_chat"])
        /\ UNCHANGED <<current_date, clock, agent, qa_chain>>

\* reset_agent_state in one of the sessions
SessionResetAgentState ==
    \E c \in Sessions :
        /\ session_state' = RunIn(session_state, c, reset_agent_state(session_state[c]))
        /\ last' = SessionCall(c, [NoCall EXCEPT !.op = "reset_agent_state"])
        /\ UNCHANGED <<current_date, clock, agent, qa_chain>>

NextSessions ==
    \/ SessionInitializeForm
    \/ SessionProcessFormInput
    \/ SessionClearChat
    \/ SessionResetAgentState

SpecSessions == InitSessions /\ [][NextSessions]_vars

(***************************************************************************)
(* Properties of the form: checked under SpecForm                          *)
(***************************************************************************)
\* the last call was process_form_input at the given step of an active form
FormCallAt(step) ==
    /\ last.op = "process_form_input"
    /\ last.step = step
    /\ last.active

\* the call being made is process_form_input, on an active form that is at
\* the given step
FormStepTaken(step) ==
    /\ last'.op = "process_form_input"
    /\ is_form_active(session_state)
    /\ get_current_step(session_state) = step

\* the keys of an appointment record
AppointmentKeys == {"name", "email", "phone", "date", "formatted_date", "timestamp"}

\* C1: an affirmative reply at the confirmation step of a form that was
\* started with initialize_form and filled with valid inputs appends exactly
\* one record to completed_forms, which holds the collected name, email,
\* phone, date and formatted_date and a timestamp; the form is then inactive
\* and its collected fields are cleared.
C1_AffirmativeReplyRecordsAppointment ==
    [][ (FormStepTaken("confirmation") /\ last'.input = InYes) =>
            LET collected == session_state.form_data
                before == session_state.completed_forms
                after == session_state'.completed_forms
                record == after[Len(after)]
            IN  /\ DOMAIN collected = AppointmentKeys \ {"timestamp"}
                /\ Len(after) = Len(before) + 1
                /\ SubSeq(after, 1, Len(before)) = before
                /\ DOMAIN record = AppointmentKeys
                /\ \A k \in DOMAIN collected : record[k] = collected[k]
                /\ record["timestamp"] = isoformat(current_date, clock)
                /\ session_state'.collecting_form = FALSE
                /\ session_state'.form_data = EmptyDict
                /\ ~ is_form_active(session_state') ]_vars

\* C1 witness: "Yes!" was answered at the confirmation step and the one
\* appointment recorded holds the name, email, phone and date given before
C1_Witness ==
    /\ FormCallAt("confirmation")
    /\ last.input = InYes
    /\ last.response.template = "confirmed"
    /\ Len(session_state.completed_forms) = 1
    /\ session_state.completed_forms[1]["name"] = <<"B","o"," ","L","e","e">>
    /\ session_state.completed_forms[1]["email"] = <<"a","l","@","x",".","i","o">>
    /\ session_state.completed_forms[1]["phone"] = InPhoneDigits
    /\ session_state.completed_forms[1]["date"] = <<"2","0","2","4","-","0","1","-","1","6">>
    /\ ~ session_state.collecting_form

\* the input is invalid for the step: the validator of the step rejects it,
\* no date was extracted from it (value is what extract_date returned), or it
\* holds neither an affirmative nor a negative token
InvalidFor(step, input, value) ==
    \/ step = "name" /\ ~ validate_name(input).is_valid
    \/ step = "email" /\ ~ validate_email(input).is_valid
    \/ step = "phone" /\ ~ validate_phone(input).is_valid
    \/ step = "date" /\ value = None
    \/ step = "confirmation" /\ ~ IsAffirmative(input) /\ ~ IsNegative(input)

\* C2: at each of the five steps, process_form_input on an input that is
\* invalid for the step leaves the current step, the collected fields, the
\* active flag and completed_forms as they were.
C2_InvalidInputChangesNothing ==
    [][ ( /\ last'.op = "process_form_input"
          /\ get_current_step(session_state) \in Range(form_steps)
          /\ InvalidFor(get_current_step(session_state), last'.input, last'.value) ) =>
            /\ get_current_step(session_state') = get_current_step(session_state)
            /\ session_state'.form_step = session_state.form_step
            /\ session_state'.form_data = session_state.form_data
            /\ session_state'.collecting_form = session_state.collecting_form
            /\ session_state'.completed_forms = session_state.completed_forms ]_vars

\* C2 witness: "not-an-email" was rejected at the email step, which the form
\* is still at with the name alone collected
C2_Witness ==
    /\ FormCallAt("email")
    /\ last.input = InBadEmail
    /\ last.response.template = "email_rejected"
    /\ get_current_step(session_state) = "email"
    /\ DOMAIN session_state.form_data = {"name"}

\* the keys collected by the steps that precede the step
KeysBefore(step) ==
    CASE step = "name" -> {}
      [] step = "email" -> {"name"}
      [] step = "phone" -> {"name", "email"}
      [] step = "date" -> {"name", "email", "phone"}
      [] step = "confirmation" -> {"name", "email", "phone", "date", "formatted_date"}
      [] OTHER -> {}

\* C3: in every state reached by initialize_form, process_form_input, Clear
\* Chat and reset_agent_state in any order, the current step is one of name,
\* email, phone, date, confirmation or the inactive value None, and the keys
\* of the collected fields are exactly those of the steps before it.
C3_StepAndCollectedKeys ==
    /\ get_current_step(session_state) \in Range(form_steps) \cup {StepNone}
    /\ DOMAIN session_state.form_data = KeysBefore(get_current_step(session_state))

\* C3 witness: the form has reached the confirmation step with its five keys
C3_Witness ==
    /\ get_current_step(session_state) = "confirmation"
    /\ DOMAIN session_state.form_data = {"name", "email", "phone", "date", "formatted_date"}
    /\ session_state.collecting_form

\* C6: "no" at the confirmation step clears every collected field, puts the
\* form back at the name step, appends nothing to completed_forms and leaves
\* the form active: it is where initialize_form puts it.
C6_NoRestartsFromName ==
    [][ (FormStepTaken("confirmation") /\ last'.input = InNo) =>
            /\ DOMAIN session_state.form_data =
                   {"name", "email", "phone", "date", "formatted_date"}
            /\ session_state'.form_data = EmptyDict
            /\ get_current_step(session_state') = "name"
            /\ session_state'.completed_forms = session_state.completed_forms
            /\ is_form_active(session_state')
            /\ session_state' = initialize_form(session_state).ss ]_vars

\* C6 witness: "no" was answered at the confirmation step of an active form
C6_Witness ==
    /\ FormCallAt("confirmation")
    /\ last.input = InNo
    /\ last.response.template = "restart"
    /\ get_current_step(session_state) = "name"
    /\ session_state.form_data = EmptyDict
    /\ session_state.collecting_form

\* the digits of s, in order
DigitsOf(s) == SelectSeq(s, LAMBDA c : c \in Digits)

\* s without whitespace, hyphens, parentheses and dots
WithoutSeparators(s) == SelectSeq(s, LAMBDA c : c \notin {" ", "\t", "\n", "-", "(", ")", "."})

\* C7: the phone step stores the digit string of a valid input: inputs that
\* differ only in whitespace, hyphens, parentheses and dots store the same
\* string ("123-456-7890", "(123) 456-7890" and "1234567890" all store
\* "1234567890"), and a digit string is stored unchanged.
C7_PhoneStoredAsDigits ==
    (last.op = "process_form_input" /\ last.step = "phone"
        /\ validate_phone(last.input).is_valid) =>
        /\ "phone" \in DOMAIN session_state.form_data
        /\ session_state.form_data["phone"] = DigitsOf(last.input)
        /\ \A other \in FormInputs :
               (validate_phone(other).is_valid
                   /\ WithoutSeparators(other) = WithoutSeparators(last.input)) =>
                   _process_phone(InitialSession, other).ss.form_data["phone"]
                       = session_state.form_data["phone"]
        /\ last.input \in {InPhoneDashes, InPhoneParens, InPhoneDigits} =>
               session_state.form_data["phone"] = InPhoneDigits
        /\ isdigit(last.input) => session_state.form_data["phone"] = last.input

\* C7 witness: "(123) 456-7890" was accepted at the phone step
C7_Witness ==
    /\ FormCallAt("phone")
    /\ last.input = InPhoneParens
    /\ last.response.template = "phone_accepted"
    /\ session_state.form_data["phone"] = InPhoneDigits

(***************************************************************************)
(* Properties of the router and of the replies: checked under Spec         *)
(***************************************************************************)
\* the last call was process_user_input on a message that is not blank
ChatCall ==
    /\ last.op = "process_user_input"
    /\ last.route # "none"

\* C4: while a form is active the router answers FORM for every message,
\* whatever it says: should_use_agent is true of every message, "hello"
\* included, and process_user_input hands every message to the form.
C4_ActiveFormCapturesEveryMessage ==
    /\ is_form_active(session_state) =>
           \A message \in UserInputs : should_use_agent(session_state, message)
    /\ (ChatCall /\ last.active) => last.route = "FORM"

\* C4 witness: "hello" was typed while a form was active and went to the form
C4_Witness ==
    /\ ChatCall
    /\ last.active
    /\ last.input = InHello
    /\ last.route = "FORM"
    /\ last.response.template = "name_rejected" \/ last.response.template = "name_accepted"

\* the eleven keywords
SchedulingKeywords ==
    { <<"c","a","l","l"," ","m","e">>,
      <<"c","a","l","l"," ","b","a","c","k">>,
      <<"s","c","h","e","d","u","l","e"," ","c","a","l","l">>,
      <<"b","o","o","k"," ","a","p","p","o","i","n","t","m","e","n","t">>,
      <<"a","p","p","o","i","n","t","m","e","n","t">>,
      <<"m","e","e","t","i","n","g">>,
      <<"t","a","l","k"," ","t","o"," ","s","o","m","e","o","n","e">>,
      <<"s","p","e","a","k"," ","w","i","t","h">>,
      <<"c","o","n","t","a","c","t"," ","m","e">>,
      <<"g","e","t"," ","i","n"," ","t","o","u","c","h">>,
      <<"s","c","h","e","d","u","l","e"," ","m","e","e","t","i","n","g">> }

\* the lowercased message contains a keyword or matches an intent pattern
AsksForCall(message) ==
    \/ \E keyword \in SchedulingKeywords : Contains(lower(message), keyword)
    \/ PoliteCallPattern(lower(message))
    \/ ScheduleCallPattern(lower(message))
    \/ WantToSchedulePattern(lower(message))

\* C5: with no form active the router answers FORM exactly for the messages
\* that, lowercased, contain one of the eleven keywords or match one of the
\* three intent patterns, and QA for every other message: "please call me
\* back" goes to FORM, "what is this document about" to QA.
C5_RoutesByKeywordOrPattern ==
    /\ Len(appointment_triggers) = 11
    /\ Cardinality(SchedulingKeywords) = 11
    /\ (ChatCall /\ ~ last.active) =>
           /\ last.route \in {"FORM", "QA"}
           /\ last.route = "FORM" <=> AsksForCall(last.input)
           /\ last.input = InCallBack => last.route = "FORM"
           /\ last.input = InDocQuestion => last.route = "QA"
    /\ ~ is_form_active(session_state) =>
           \A message \in UserInputs :
               should_use_agent(session_state, message) <=> AsksForCall(message)

\* C5 witness: with no form active "a Meeting?", which holds a keyword only
\* once lowercased, went to FORM
C5_Witness ==
    /\ ChatCall
    /\ ~ last.active
    /\ last.input = InMeeting
    /\ last.route = "FORM"

\* C10 as claimed: whenever the QA chain, the LLM or the agent executor
\* raised during the call, the reply is one of the fixed texts and holds the
\* message of none of the exceptions raised.
C10_FailureReplyHidesError ==
    (ChatCall /\ last.errors # {}) =>
        /\ last.response.template # "agent_error"
        /\ \A e \in last.errors : \A i \in DOMAIN last.response.args :
               ~ Contains(last.response.args[i], e)

(***************************************************************************)
(* Properties of extract_date: checked under SpecDate                      *)
(***************************************************************************)
\* the days of the months of a year
MonthLengths(y) ==
    <<31, IF y % 4 = 0 /\ (y % 100 # 0 \/ y % 400 = 0) THEN 29 ELSE 28,
      31, 30, 31, 30, 31, 31, 30, 31, 30, 31>>

\* the day after and the day before a calendar date
NextDay(date) ==
    IF date.d < MonthLengths(date.y)[date.m] THEN [date EXCEPT !.d = @ + 1]
    ELSE IF date.m < 12 THEN [y |-> date.y, m |-> date.m + 1, d |-> 1]
    ELSE [y |-> date.y + 1, m |-> 1, d |-> 1]

PrevDay(date) ==
    IF date.d > 1 THEN [date EXCEPT !.d = @ - 1]
    ELSE IF date.m > 1
    THEN [y |-> date.y, m |-> date.m - 1, d |-> MonthLengths(date.y)[date.m - 1]]
    ELSE [y |-> date.y - 1, m |-> 12, d |-> 31]

RECURSIVE DaysLater(_, _)
DaysLater(date, n) == IF n = 0 THEN date ELSE DaysLater(NextDay(date), n - 1)

\* YYYY-MM-DD
IsoDate(date) ==
    <<Digit(date.y \div 1000), Digit((date.y \div 100) % 10), Digit((date.y \div 10) % 10),
      Digit(date.y % 10), "-", Digit(date.m \div 10), Digit(date.m % 10), "-",
      Digit(date.d \div 10), Digit(date.d % 10)>>

\* the first of the phrases, in the order today, tomorrow, yesterday, next
\* week, that the lowercased text contains; "none" if it contains none
RelativePhrase(text) ==
    IF Contains(lower(text), <<"t","o","d","a","y">>) THEN "today"
    ELSE IF Contains(lower(text), <<"t","o","m","o","r","r","o","w">>) THEN "tomorrow"
    ELSE IF Contains(lower(text), <<"y","e","s","t","e","r","d","a","y">>) THEN "yesterday"
    ELSE IF Contains(lower(text), <<"n","e","x","t"," ","w","e","e","k">>) THEN "next week"
    ELSE "none"

\* the weekday of a calendar date, Monday = 0, by Zeller's congruence
DayOfWeek(date) ==
    LET month == IF date.m < 3 THEN date.m + 12 ELSE date.m
        year == IF date.m < 3 THEN date.y - 1 ELSE date.y
        h == (date.d + ((13 * (month + 1)) \div 5) + (year % 100) + ((year % 100) \div 4)
                 + ((year \div 100) \div 4) + 5 * (year \div 100)) % 7
    IN  (h + 5) % 7

\* C8: on every reference date extract_date maps a text with "today",
\* "tomorrow" or "yesterday" to the reference date, the day after it and the
\* day before it, and a text with "next week" to the day seven days after
\* it, as calendar dates across the ends of months and years ("tomorrow" on
\* 2024-01-15 gives "2024-01-16"); the first of the phrases that the text
\* contains, in that order, decides.
C8_RelativeDates ==
    last.op = "extract_date" =>
        /\ RelativePhrase(last.input) = "today" => last.value = IsoDate(current_date)
        /\ RelativePhrase(last.input) = "tomorrow" =>
               last.value = IsoDate(NextDay(current_date))
        /\ RelativePhrase(last.input) = "yesterday" =>
               last.value = IsoDate(PrevDay(current_date))
        /\ RelativePhrase(last.input) = "next week" =>
               last.value = IsoDate(DaysLater(current_date, 7))
        /\ (last.input = InTomorrow /\ current_date = Date(2024, 1, 15)) =>
               last.value = <<"2","0","2","4","-","0","1","-","1","6">>

\* C8 witness: "tomorrow" on the last day of a year gave the first of the next
C8_Witness ==
    /\ last.op = "extract_date"
    /\ last.input = InTomorrow
    /\ current_date = Date(2024, 12, 31)
    /\ last.value = <<"2","0","2","5","-","0","1","-","0","1">>

\* C9 as claimed: "next monday" on a Monday gives the day eight days later.
C9_NextMondayEightDaysLater ==
    (last.op = "extract_date" /\ last.input = InNextMondayPlain
        /\ DayOfWeek(current_date) = 0) =>
        last.value = IsoDate(DaysLater(current_date, 8))

\* C9 as amended: "next monday" on a Monday gives the Monday seven days
\* later, neither the day itself nor the day after it.
C9_NextMondaySevenDaysLater ==
    (last.op = "extract_date" /\ last.input = InNextMondayPlain
        /\ DayOfWeek(current_date) = 0) =>
        /\ last.value = IsoDate(DaysLater(current_date, 7))
        /\ DayOfWeek(DaysLater(current_date, 7)) = 0
        /\ last.value # IsoDate(current_date)
        /\ last.value # IsoDate(NextDay(current_date))

\* C9 witness: "next monday" on Monday 2024-12-30 gave Monday 2025-01-06
C9_Witness ==
    /\ last.op = "extract_date"
    /\ last.input = InNextMondayPlain
    /\ current_date = Date(2024, 12, 30)
    /\ last.value = <<"2","0","2","5","-","0","1","-","0","6">>

(***************************************************************************)
(* Properties of the conversation: checked under Spec                      *)
(***************************************************************************)
\* the replies process_user_input appends to the log
ReplyTemplates ==
    {"qa_answer", "llm_answer", "llm_apology", "agent_output", "agent_unavailable",
     "agent_error", "opening_prompt", "name_prompt", "name_accepted", "name_rejected",
     "email_accepted", "email_rejected", "phone_accepted", "phone_rejected",
     "confirm_prompt", "date_rejected", "confirmed", "restart", "confirm_reprompt"}

\* what the collaborators may do during one call: each of them may raise
Environments ==
    [agent : {agent}, qa_chain : {qa_chain}, invoke : AgentInvokes,
     qa_error : {None, ErrBoom}, llm_error : {None, ErrBoom},
     today : {current_date}, lib : [pads : BOOLEAN, fuzzy : {None, strftime(current_date)}],
     timestamp : {isoformat(current_date, clock)}]

\* C11: for every message that is not blank and every combination of
\* failures of the QA chain, the LLM and the agent executor, process_user_input
\* returns and appends the user's message and exactly one assistant reply to
\* the log; and in the state a call leaves in which a collaborator raised, the
\* same is true of every message that can be typed next.
C11_NoErrorIsFatal ==
    /\ [][ (last'.op = "process_user_input" /\ ~ IsBlank(last'.input)) =>
               /\ session_state'.messages =
                      session_state.messages \o <<"user", "assistant">>
               /\ last'.route \in {"FORM", "QA"}
               /\ last'.response.template \in ReplyTemplates ]_vars
    /\ [] ( (ChatCall /\ last.errors # {}) =>
               \A user_input \in UserInputs \ {InBlank}, env \in Environments :
                   LET next == process_user_input(session_state, user_input, env)
                   IN  /\ next.ss.messages =
                              session_state.messages \o <<"user", "assistant">>
                       /\ next.response.template \in ReplyTemplates )

\* C11 witness: the LLM raised while the second message was answered, and the
\* log holds the two messages and the two replies
C11_Witness ==
    /\ ChatCall
    /\ last.errors = {ErrBoom}
    /\ last.response.template = "llm_apology"
    /\ session_state.messages = <<"user", "assistant", "user", "assistant">>

\* the step being taken is process_user_input on a message that is not blank,
\* typed while a form is active
ChatStepInForm ==
    /\ last'.op = "process_user_input"
    /\ ~ IsBlank(last'.input)
    /\ is_form_active(session_state)

\* C12: every message that is not blank and is typed while a form is active
\* is handed to process_form_input, and to nothing else: the state and the
\* reply are those process_form_input gives, with the two entries added to the
\* log. The active flag goes from true to false only by an affirmative reply
\* at the confirmation step, by Clear Chat or by reset_agent_state.
C12_ActiveFormHandlesEveryMessage ==
    /\ [][ ChatStepInForm =>
               \E lib \in DateLibs(last'.input, current_date) :
                   LET handled == process_form_input(
                                      session_state, last'.input, current_date, lib,
                                      isoformat(current_date, clock))
                   IN  /\ handled.result.raised = "none"
                       /\ last'.route = "FORM"
                       /\ last'.response = handled.result.response
                       /\ session_state' =
                              [handled.ss EXCEPT !.messages =
                                   session_state.messages \o <<"user", "assistant">>] ]_vars
    /\ [][ (is_form_active(session_state) /\ ~ is_form_active(session_state')) =>
               \/ last'.op \in {"clear_chat", "reset_agent_state"}
               \/ /\ last'.op = "process_user_input"
                  /\ get_current_step(session_state) = "confirmation"
                  /\ IsAffirmative(last'.input)
                  /\ Len(session_state'.completed_forms)
                         = Len(session_state.completed_forms) + 1 ]_vars

\* C12 witness: "al" was typed while the form was at the name step and was
\* taken as the name, the form going on to the email step
C12_Witness ==
    /\ ChatCall
    /\ last.active
    /\ last.step = "name"
    /\ last.input = InAl
    /\ last.route = "FORM"
    /\ last.response.template = "name_accepted"
    /\ get_current_step(session_state) = "email"
    /\ session_state.collecting_form

(***************************************************************************)
(* Further properties of extract_date: checked under SpecDate              *)
(***************************************************************************)
\* s has the form YYYY-MM-DD
IsYearMonthDay(s) ==
    /\ Len(s) = 10
    /\ \A i \in {1, 2, 3, 4, 6, 7, 9, 10} : s[i] \in Digits
    /\ s[5] = "-"
    /\ s[8] = "-"

\* C13 as claimed: whatever the text, extract_date returns None or a string
\* of the form YYYY-MM-DD, and it returns None when no rule gives a date and
\* the fuzzy parse fails.
C13_NoneOrYearMonthDay ==
    last.op = "extract_date" =>
        /\ last.value = None \/ IsYearMonthDay(last.value)
        /\ \A lib \in DateLibs(last.input, current_date) :
               (DateRules(last.input, current_date) = None /\ lib.fuzzy = None) =>
                   extract_date(last.input, current_date, lib) = None

\* the number (Monday = 0) of the first weekday, in the order Monday to
\* Sunday, that the lowercased text names; -1 if it names none
WeekdayNamed(text) ==
    LET named == {i \in 1..7 : Contains(lower(text), weekdays[i])}
    IN  IF named = {} THEN -1 ELSE (CHOOSE i \in named : \A j \in named : i <= j) - 1

\* none of the rules for today, tomorrow, yesterday, next week and next month
\* applies to the text
NoRelativeRule(text) ==
    /\ RelativePhrase(text) = "none"
    /\ ~ Contains(lower(text), <<"n","e","x","t"," ","m","o","n","t","h">>)

\* C14: on every reference date, for a text that names a weekday and that no
\* earlier rule applies to, extract_date returns a date that falls on the
\* weekday named (the first of Monday..Sunday that the text contains) and
\* lies after the reference date: without the word "next" the nearest such
\* date, 1 to 7 days ahead; with the word "next" that weekday of the week,
\* counted from its Monday, that follows the week of the reference date.
C14_WeekdayAfterReferenceDate ==
    ( /\ last.op = "extract_date"
      /\ NoRelativeRule(last.input)
      /\ WeekdayNamed(last.input) >= 0 ) =>
        \E days \in 1..13 :
            /\ last.value = IsoDate(DaysLater(current_date, days))
            /\ DayOfWeek(DaysLater(current_date, days)) = WeekdayNamed(last.input)
            /\ ~ Contains(lower(last.input), <<"n","e","x","t">>) => days \in 1..7
            /\ Contains(lower(last.input), <<"n","e","x","t">>) =>
                   DayOfWeek(current_date) + days \in 7..13

\* C14 witness: "next friday" on Monday 2024-01-15 gave Friday 2024-01-26,
\* not the Friday of the same week
C14_Witness ==
    /\ last.op = "extract_date"
    /\ last.input = InNextFriday
    /\ current_date = Date(2024, 1, 15)
    /\ last.value = <<"2","0","2","4","-","0","1","-","2","6">>

(***************************************************************************)
(* Further properties of the conversation: checked under Spec              *)
(***************************************************************************)
\* C15 as claimed: after a turn whose message the router sent to FORM while no
\* form was active, the form is active, at the name step, with no collected
\* fields.
C15_IntentCreatesForm ==
    (ChatCall /\ ~ last.active /\ last.route = "FORM") =>
        /\ is_form_active(session_state)
        /\ get_current_step(session_state) = "name"
        /\ session_state.form_data = EmptyDict

(***************************************************************************)
(* Properties of the list of appointments: checked under SpecRecords       *)
(***************************************************************************)
\* the smaller of two numbers
Smaller(a, b) == IF a <= b THEN a ELSE b

\* entry i of the list shown is the record at position Source(i) of
\* completed_forms, for each of the entries, and there are as many entries as
\* records, up to cap
ShowsRecords(shown, cap, Source(_)) ==
    LET records == session_state.completed_forms
    IN  /\ Len(shown) = Smaller(Len(records), cap)
        /\ \A i \in 1..Len(shown) :
               /\ shown[i].name = records[Source(i)]["name"]
               /\ shown[i].email = records[Source(i)]["email"]
               /\ shown[i].phone = records[Source(i)]["phone"]
               /\ shown[i].date = records[Source(i)]["formatted_date"]
               /\ shown[i].requested = records[Source(i)]["timestamp"]

\* C16 as claimed: whatever the number of records, the sidebar shows the last
\* three and the tool returns the last five, the most recent record first.
C16_MostRecentFirst ==
    LET recorded == Len(session_state.completed_forms)
        MostRecentFirst(i) == recorded - i + 1
    IN  /\ last.op = "display_completed_appointments" =>
               ShowsRecords(last.value, 3, MostRecentFirst)
        /\ last.op = "get_completed_appointments" =>
               ShowsRecords(last.value, 5, MostRecentFirst)

\* C16 as amended: whatever the number of records, the sidebar shows the last
\* three and the tool returns the last five, in the order in which they were
\* recorded, the most recent record last.
C16_LastFewInOrderRecorded ==
    LET recorded == Len(session_state.completed_forms)
        AsRecorded(cap, i) == recorded - Smaller(recorded, cap) + i
        LastThree(i) == AsRecorded(3, i)
        LastFive(i) == AsRecorded(5, i)
    IN  /\ last.op = "display_completed_appointments" =>
               ShowsRecords(last.value, 3, LastThree)
        /\ last.op = "get_completed_appointments" =>
               ShowsRecords(last.value, 5, LastFive)

\* C16 witness: of six records the tool returned five, the second record
\* first and the sixth last
C16_Witness ==
    /\ last.op = "get_completed_appointments"
    /\ Len(session_state.completed_forms) = 6
    /\ Len(last.value) = 5
    /\ last.value[1].requested = session_state.completed_forms[2]["timestamp"]
    /\ last.value[5].requested = session_state.completed_forms[6]["timestamp"]
    /\ last.value[1].requested # last.value[5].requested

C18_OneStepAtATime ==
    [][ last'.op = "process_form_input" =>
            LET from == get_current_step(session_state)
                to == get_current_step(session_state')
            IN  \/ to = from
                \/ \E i \in 1..(Len(form_steps) - 1) :
                       from = form_steps[i] /\ to = form_steps[i + 1]
                \/ /\ from = "confirmation"
                   /\ IsAffirmative(last'.input)
                   /\ to = StepNone
                   /\ ~ is_form_active(session_state')
                \/ /\ from = "confirmation"
                   /\ IsNegative(last'.input)
                   /\ to = "name"
                \/ /\ from \notin Range(form_steps)
                   /\ to = "name" ]_vars

\* C18 witness: a valid phone number moved the form from the phone step to the
\* date step
C18_Witness ==
    /\ last.op = "process_form_input"
    /\ last.step = "phone"
    /\ last.input = InPhoneDashes
    /\ last.response.template = "phone_accepted"
    /\ get_current_step(session_state) = "date"

\* C19 as claimed: at the confirmation step every reply that contains one of
\* the tokens no, incorrect, wrong, n puts the form back at the name step with
\* its fields cleared and records no appointment.
C19_NegativeReplyRestarts ==
    [][ (FormStepTaken("confirmation") /\ IsNegative(last'.input)) =>
            /\ get_current_step(session_state') = "name"
            /\ session_state'.form_data = EmptyDict
            /\ session_state'.completed_forms = session_state.completed_forms ]_vars

(***************************************************************************)
(* The values held in form_data: checked under SpecForm                    *)
(***************************************************************************)
\* s has no whitespace at either end
IsTrimmed(s) == s = << >> \/ (s[1] \notin Whitespace /\ s[Len(s)] \notin Whitespace)

\* every letter of s that follows a non-letter is a capital and no other is
IsTitleCased(s) ==
    \A i \in 1..Len(s) :
        s[i] \in Letters => (s[i] \in Uppers <=> (i = 1 \/ s[i - 1] \notin Letters))

\* the text "Weekday, Month DD, YYYY" of the calendar date that the
\* YYYY-MM-DD string s writes
LongRendering(s) ==
    LET date == [y |-> Number(SubSeq(s, 1, 4)), m |-> Number(SubSeq(s, 6, 7)),
                 d |-> Number(SubSeq(s, 9, 10))]
    IN  title(weekdays[DayOfWeek(date) + 1]) \o <<",", " ">> \o month_name[date.m]
            \o <<" ">> \o SubSeq(s, 9, 10) \o <<",", " ">> \o SubSeq(s, 1, 4)

\* C20: every value held in form_data is the normalized form of an input
\* that passed the validator of its field: name is the trimmed, title-cased
\* text of an input of at least 2 letters and spaces, email is the trimmed,
\* lower-cased text of an input that matches the email pattern, phone is a
\* string of digits only of length 10 or more, date is a YYYY-MM-DD string
\* of a calendar date and formatted_date is the long rendering of that date.
C20_FieldsAreNormalizedValidInputs ==
    LET form_data == session_state.form_data
    IN  /\ DOMAIN form_data \subseteq {"name", "email", "phone", "date", "formatted_date"}
        /\ "name" \in DOMAIN form_data =>
               /\ \E u \in FormInputs :
                      /\ validate_name_of[u].is_valid
                      /\ form_data["name"] = title(strip(u))
               /\ Len(form_data["name"]) >= 2
               /\ \A i \in 1..Len(form_data["name"]) :
                      form_data["name"][i] \in Letters \cup Whitespace
               /\ IsTrimmed(form_data["name"])
               /\ IsTitleCased(form_data["name"])
        /\ "email" \in DOMAIN form_data =>
               /\ \E u \in FormInputs :
                      /\ validate_email_of[u].is_valid
                      /\ form_data["email"] = lower(strip(u))
               /\ EmailPatternMatches(form_data["email"])
               /\ IsTrimmed(form_data["email"])
               /\ \A i \in 1..Len(form_data["email"]) : form_data["email"][i] \notin Uppers
        /\ "phone" \in DOMAIN form_data =>
               /\ \E u \in FormInputs :
                      /\ validate_phone_of[u].is_valid
                      /\ form_data["phone"] = Remove(u, PhoneSeparators)
               /\ \A i \in 1..Len(form_data["phone"]) : form_data["phone"][i] \in Digits
               /\ Len(form_data["phone"]) >= 10
        /\ "date" \in DOMAIN form_data <=> "formatted_date" \in DOMAIN form_data
        /\ "date" \in DOMAIN form_data =>
               /\ IsYearMonthDay(form_data["date"])
               /\ IsValidDate(Number(SubSeq(form_data["date"], 1, 4)),
                              Number(SubSeq(form_data["date"], 6, 7)),
                              Number(SubSeq(form_data["date"], 9, 10)))
               /\ form_data["formatted_date"] = LongRendering(form_data["date"])

\* C20 witness: the form holds all five fields, the name and the email from
\* inputs that the normalization changed and the phone from an input with
\* separators
C20_Witness ==
    /\ DOMAIN session_state.form_data = {"name", "email", "phone", "date", "formatted_date"}
    /\ \E u \in FormInputs :
           /\ validate_name_of[u].is_valid
           /\ session_state.form_data["name"] = title(strip(u))
           /\ session_state.form_data["name"] # u
    /\ \E u \in FormInputs :
           /\ validate_email_of[u].is_valid
           /\ session_state.form_data["email"] = lower(strip(u))
           /\ session_state.form_data["email"] # u
    /\ \E u \in FormInputs :
           /\ validate_phone_of[u].is_valid
           /\ session_state.form_data["phone"] = Remove(u, PhoneSeparators)
           /\ session_state.form_data["phone"] # u

(***************************************************************************)
(* The order of the rules of extract_date: checked under SpecDate          *)
(***************************************************************************)
\* the rules in the order claimed: today, tomorrow, yesterday, next week,
\* next month, the weekday names, the four explicit patterns, the fuzzy parse
RuleCount == 6 + Len(date_patterns) + 1

\* rule k applies to the lowercased, trimmed text: its phrase occurs, a
\* weekday is named, its pattern is found; the fuzzy parse is tried on every
\* text
RuleMatches(k, text) ==
    CASE k = 1 -> Contains(text, <<"t","o","d","a","y">>)
      [] k = 2 -> Contains(text, <<"t","o","m","o","r","r","o","w">>)
      [] k = 3 -> Contains(text, <<"y","e","s","t","e","r","d","a","y">>)
      [] k = 4 -> Contains(text, <<"n","e","x","t"," ","w","e","e","k">>)
      [] k = 5 -> Contains(text, <<"n","e","x","t"," ","m","o","n","t","h">>)
      [] k = 6 -> \E i \in 1..7 : Contains(text, weekdays[i])
      [] k \in 7..10 -> SearchDatePattern(text, date_patterns[k - 6]) # None
      [] OTHER -> TRUE

\* the date rule k gives for the text on the day today, None when its parse
\* fails; fuzzy is what the fuzzy parse gives
RuleResult(k, text, today, fuzzy) ==
    CASE k = 1 -> IsoDate(today)
      [] k = 2 -> IsoDate(DaysLater(today, 1))
      [] k = 3 -> IsoDate(PrevDay(today))
      [] k = 4 -> IsoDate(DaysLater(today, 7))
      [] k = 5 -> strftime(AddOneMonth(today))
      [] k = 6 -> WeekdayRule(text, today)
      [] k \in 7..10 -> ParseMatch(SearchDatePattern(text, date_patterns[k - 6]))
      [] OTHER -> fuzzy

\* the least number of the set ks
Least(ks) == CHOOSE k \in ks : \A j \in ks : k <= j

\* the YYYY-MM-DD string s as the library lib writes it
WrittenBy(lib, s) ==
    IF s = None \/ lib.pads THEN s
    ELSE WithoutLeadingZeros(SubSeq(s, 1, 4)) \o SubSeq(s, 5, Len(s))

\* C21 as claimed: the result of extract_date is the result of the first rule,
\* in the order today, tomorrow, yesterday, next week, next month, weekday
\* names, YYYY-MM-DD, MM/DD/YYYY, MM-DD-YYYY, M/D/YYYY, fuzzy parse, that
\* matches the text.
C21_FirstMatchingRuleDecides ==
    last.op = "extract_date" =>
        LET text == strip(lower(last.input))
            first == Least({k \in 1..RuleCount : RuleMatches(k, text)})
        IN  \E lib \in DateLibs(last.input, current_date) :
                last.value = WrittenBy(lib, RuleResult(first, text, current_date, lib.fuzzy))

\* C21: the result of extract_date is the result of the first rule, in the
\* order today, tomorrow, yesterday, next week, next month, weekday names,
\* YYYY-MM-DD, MM/DD/YYYY, MM-DD-YYYY, M/D/YYYY, fuzzy parse, that matches the
\* text and gives a date: an explicit pattern whose match does not parse as a
\* calendar date is passed over, and the fuzzy parse is the last resort. A
\* text that names a weekday and holds "tomorrow" gets tomorrow's date, and
\* one that names a weekday and holds an explicit date gets the weekday's.
C21_FirstRuleGivingADateDecides ==
    last.op = "extract_date" =>
        LET text == strip(lower(last.input))
        IN  \E lib \in DateLibs(last.input, current_date) :
                LET first == Least({k \in 1..RuleCount :
                                      /\ RuleMatches(k, text)
                                      /\ k = RuleCount
                                           \/ RuleResult(k, text, current_date, lib.fuzzy) # None})
                IN  last.value = WrittenBy(lib, RuleResult(first, text, current_date, lib.fuzzy))

\* C21 witness: "monday or tomorrow" on a Wednesday gave the Thursday, and
\* not the Monday that the weekday rule gives
C21_Witness ==
    /\ last.op = "extract_date"
    /\ last.input = InMondayOrTomorrow
    /\ current_date = Date(2024, 1, 17)
    /\ last.value = <<"2","0","2","4","-","0","1","-","1","8">>
    /\ WeekdayRule(last.input, current_date) = <<"2","0","2","4","-","0","1","-","2","2">>

(***************************************************************************)
(* Recovery, restart and reset of the form: checked under SpecForm         *)
(***************************************************************************)
\* the call being made is process_form_input while the current step is none
\* of the five steps of the form
UnknownStepTaken ==
    /\ last'.op = "process_form_input"
    /\ get_current_step(session_state) \notin Range(form_steps)

\* C22: process_form_input called while the current step is not one of the
\* five known steps (the value left by a completed form, by Clear Chat or by
\* reset_agent_state) raises nothing: it sets the step to name, empties the
\* collected fields and answers with the name prompt, and leaves the active
\* flag, completed_forms and the message log as they were.
C22_UnknownStepRestartsAtName ==
    [][ UnknownStepTaken =>
            /\ \A lib \in DateLibs(last'.input, current_date) :
                   process_form_input(session_state, last'.input, current_date, lib,
                                      isoformat(current_date, clock)).result.raised = "none"
            /\ get_current_step(session_state') = "name"
            /\ session_state'.form_data = EmptyDict
            /\ last'.response = [template |-> "name_prompt", args |-> << >>]
            /\ session_state'.collecting_form = session_state.collecting_form
            /\ session_state'.completed_forms = session_state.completed_forms
            /\ session_state'.messages = session_state.messages ]_vars

\* C22 witness: after a form was completed, process_form_input found the step
\* None and put the form at the name step, still inactive, with the
\* appointment still recorded
C22_Witness ==
    /\ last.op = "process_form_input"
    /\ last.step = StepNone
    /\ last.response.template = "name_prompt"
    /\ get_current_step(session_state) = "name"
    /\ ~ is_form_active(session_state)
    /\ session_state.form_data = EmptyDict
    /\ Len(session_state.completed_forms) = 1

\* C23: from any state initialize_form makes the form active, puts it at the
\* name step and empties the collected fields, whatever was collected so
\* far, and answers with the opening prompt; it changes neither
\* completed_forms nor the message log, and a second call right after it
\* gives the same state and the same answer as the first.
C23_InitializeFormRestarts ==
    [][ last'.op = "initialize_form" =>
            /\ is_form_active(session_state')
            /\ get_current_step(session_state') = "name"
            /\ session_state'.form_data = EmptyDict
            /\ last'.response = [template |-> "opening_prompt", args |-> << >>]
            /\ session_state'.completed_forms = session_state.completed_forms
            /\ session_state'.messages = session_state.messages
            /\ initialize_form(session_state').ss = session_state'
            /\ initialize_form(session_state').result = initialize_form(session_state).result
      ]_vars

\* C23 witness: initialize_form was called on an active form that had reached
\* the confirmation step, and the form is at the name step with no field
C23_Witness ==
    /\ last.op = "initialize_form"
    /\ last.active
    /\ last.step = "confirmation"
    /\ is_form_active(session_state)
    /\ get_current_step(session_state) = "name"
    /\ session_state.form_data = EmptyDict

(***************************************************************************)
(* Sessions that interleave: checked under SpecSessions                    *)
(***************************************************************************)
\* the states the call recorded in last' can leave session c in, computed
\* from the state of session c alone
OwnOutcomes(c) ==
    CASE last'.op = "initialize_form" -> {initialize_form(session_state[c]).ss}
      [] last'.op = "process_form_input" ->
             {process_form_input(session_state[c], last'.input, current_date, lib,
                                 isoformat(current_date, clock)).ss :
                  lib \in DateLibs_of[last'.input, current_date]}
      [] last'.op = "clear_chat" -> {clear_chat(session_state[c])}
      [] last'.op = "reset_agent_state" -> {reset_agent_state(session_state[c])}
      [] OTHER -> {session_state[c]}

C25_HistoryNeverForcesFallback ==
    \A message \in UserInputs :
        (~ IsBlank_of[message] /\ ~ detect_call_request_of[message]) =>
            /\ ~ _format_chat_history(session_state.messages).raised
            /\ \A llm_error \in {None, ErrBoom} :
                   get_response(message, session_state.messages, TRUE, None,
                                llm_error).template = "qa_answer"

\* the log is user, assistant, user, assistant, ...: it has even length and
\* the entries at odd places are the user's
Alternates(messages) ==
    /\ Len(messages) % 2 = 0
    /\ \A i \in 1..Len(messages) :
           messages[i] = IF i % 2 = 1 THEN "user" ELSE "assistant"

\* C26: after any sequence of process_user_input calls (and presses of Clear
\* Chat) the message log alternates user, assistant from a user message on and
\* has even length: a call with an input that is not blank appends one user
\* message and then one assistant message, also when a collaborator raised
\* during the call, and a call with an empty or whitespace-only input changes
\* nothing at all.
C26_LogAlternates ==
    /\ [] Alternates(session_state.messages)
    /\ [][ last'.op = "process_user_input" =>
               IF strip(last'.input) = << >>
               THEN session_state' = session_state
               ELSE session_state'.messages
                        = session_state.messages \o <<"user", "assistant">> ]_vars

\* C26 witness: the agent executor raised during the second exchange, and
\* the log holds that exchange as a user message and an assistant message
C26_Witness ==
    /\ ChatCall
    /\ last.errors # {}
    /\ last.route = "FORM"
    /\ session_state.messages = <<"user", "assistant", "user", "assistant">>

(***************************************************************************)
(* Replies at the confirmation step: checked under SpecForm                *)
(***************************************************************************)
\* the lowercased, trimmed reply contains one of the tokens
HoldsToken(reply, tokens) == \E t \in tokens : Contains(strip(lower(reply)), t)

\* C27: at the confirmation step a reply that contains an affirmative token
\* (yes, correct, confirm, y) and also a negative token (no, incorrect,
\* wrong, n) is handled as a confirmation: the appointment is appended to
\* completed_forms with the collected fields, the form ends (inactive, step
\* None, fields empty) and the reply is the confirmation, not the restart.
C27_AffirmativeTakesPrecedence ==
    [][ ( /\ FormStepTaken("confirmation")
          /\ HoldsToken(last'.input, { <<"y","e","s">>, <<"c","o","r","r","e","c","t">>,
                                       <<"c","o","n","f","i","r","m">>, <<"y">> })
          /\ HoldsToken(last'.input, { <<"n","o">>, <<"i","n","c","o","r","r","e","c","t">>,
                                       <<"w","r","o","n","g">>, <<"n">> }) ) =>
            /\ last'.response.template = "confirmed"
            /\ Len(session_state'.completed_forms) = Len(session_state.completed_forms) + 1
            /\ \A k \in DOMAIN session_state.form_data :
                   session_state'.completed_forms[Len(session_state'.completed_forms)][k]
                       = session_state.form_data[k]
            /\ ~ is_form_active(session_state')
            /\ session_state'.form_step = StepNone
            /\ session_state'.form_data = EmptyDict ]_vars

\* C27 witness: "incorrect", which holds the tokens correct, incorrect and n,
\* was given at the confirmation step and the appointment was recorded
C27_Witness ==
    /\ FormCallAt("confirmation")
    /\ last.input = InIncorrect
    /\ last.response.template = "confirmed"
    /\ Len(session_state.completed_forms) = 1
    /\ ~ is_form_active(session_state)

(***************************************************************************)
(* A session without agent executor: checked under Spec                    *)
(***************************************************************************)
\* C28: in a session whose agent executor could not be created,
\* process_with_agent answers every message with the "Agent is not
\* available" reply and success = false and leaves the session state as it
\* is, so after any sequence of messages (and of Clear Chat and resets) the
\* form is inactive, no field is collected and no appointment is recorded.
C28_NoFormWithoutAgent ==
    ~ agent =>
        /\ ~ is_form_active(session_state)
        /\ session_state.form_data = EmptyDict
        /\ session_state.completed_forms = << >>
        /\ (ChatCall /\ last.route = "FORM") =>
               last.response = [template |-> "agent_unavailable", args |-> << >>]
        /\ \A user_input \in UserInputs, invoke \in AgentInvokes :
             \A lib \in DateLibs_of[user_input, current_date] :
               process_with_agent(session_state, user_input, FALSE, invoke, current_date,
                                  lib, isoformat(current_date, clock))
                   = [ss |-> session_state,
                      response |-> [template |-> "agent_unavailable", args |-> << >>],
                      tool_used |-> "None", success |-> FALSE]

\* C28 witness: without an agent executor "please call me back" was answered,
\* as the second message of the session, with "Agent is not available", and
\* no form is active
C28_Witness ==
    /\ ~ agent
    /\ ChatCall
    /\ last.input = InCallBack
    /\ last.route = "FORM"
    /\ last.response.template = "agent_unavailable"
    /\ Len(session_state.messages) = 4
    /\ ~ is_form_active(session_state)

(***************************************************************************)
(* Clear Chat and reset_agent_state: checked under Spec                    *)
(***************************************************************************)
\* the form of the session state ss is abandoned: inactive, at no step, with
\* no field
FormAbandoned(ss) ==
    /\ ~ ss.collecting_form
    /\ ss.form_step = StepNone
    /\ ss.form_data = EmptyDict

\* C29: Clear Chat empties the message log and abandons the form (inactive,
\* step None, no fields) and leaves completed_forms as it was;
\* reset_agent_state abandons the form in the same way and leaves the
\* message log and completed_forms as they were.
C29_ClearAndResetAbandonForm ==
    [][ /\ last'.op = "clear_chat" =>
               /\ session_state'.messages = << >>
               /\ FormAbandoned(session_state')
               /\ session_state'.completed_forms = session_state.completed_forms
        /\ last'.op = "reset_agent_state" =>
               /\ FormAbandoned(session_state')
               /\ session_state'.messages = session_state.messages
               /\ session_state'.completed_forms = session_state.completed_forms
      ]_vars

\* C29 witness: reset_agent_state was called while a form was active at the
\* email step; the form is abandoned and the log still holds the exchanges
C29_Witness ==
    /\ last.op = "reset_agent_state"
    /\ last.active
    /\ last.step = "email"
    /\ FormAbandoned(session_state)
    /\ Len(session_state.messages) >= 4

(***************************************************************************)
(* The two keyword tests: checked under Spec                               *)
(***************************************************************************)
\* the trigger loop of should_use_agent: some trigger occurs in the
\* lowercased, trimmed message
HasTriggerKeyword(message) ==
    \E i \in 1..Len(appointment_triggers) :
        Contains(strip(lower(message)), appointment_triggers[i])

\* further messages for the two tests: ' Call Me ', 'a MEETING' followed by a
\* newline, 'callme' and 'get in  touch' (two spaces)
KeywordTexts ==
    { <<" ","C","a","l","l"," ","M","e"," ">>,
      <<"a"," ","M","E","E","T","I","N","G","\n">>,
      <<"c","a","l","l","m","e">>,
      <<"g","e","t"," ","i","n"," "," ","t","o","u","c","h">> }

\* the two keyword tests give the same verdict on every text, and accept some
\* of the texts and reject others
KeywordTestsAgree ==
    /\ \A u \in Texts \cup KeywordTexts : detect_call_request(u) = HasTriggerKeyword(u)
    /\ {u \in KeywordTexts : detect_call_request(u)}
           = { <<" ","C","a","l","l"," ","M","e"," ">>,
               <<"a"," ","M","E","E","T","I","N","G","\n">> }

\* C30: detect_call_request and the trigger loop of should_use_agent accept
\* the same messages, so every message that process_user_input hands to the
\* chatbot is one for which detect_call_request is false, and on such a turn
\* a QA chain that is present is called: when neither the formatting of the
\* history nor a collaborator raised, the reply is the chain's answer.
C30_KeywordTestsAgree ==
    /\ KeywordTestsAgree
    /\ call_keywords = appointment_triggers
    /\ (ChatCall /\ last.route = "QA") =>
           /\ ~ detect_call_request_of[last.input]
           /\ ~ HasTriggerKeyword(last.input)
           /\ LET history == SubSeq(session_state.messages, 1,
                                    Len(session_state.messages) - 2)
              IN  (qa_chain /\ last.errors = {}
                       /\ ~ _format_chat_history(history).raised) =>
                      last.response.template = "qa_answer"

\* C30 witness: with a QA chain, "what is this document about" went to the
\* chatbot and was answered by the chain, while "please call me back",
\* accepted by both keyword tests, is routed to the agent
C30_Witness ==
    /\ ChatCall
    /\ last.route = "QA"
    /\ last.input = InDocQuestion
    /\ qa_chain
    /\ last.response.template = "qa_answer"
    /\ detect_call_request(InCallBack)
    /\ HasTriggerKeyword(InCallBack)
    /\ should_use_agent(session_state, InCallBack)

====
